---- MODULE Spec2Model ----
(***************************************************************************)
(* PolyConvert-Desktop (package ufc): the chunker, the text normalizer and *)
(* the conversion engine, as state machines.                               *)
(*                                                                         *)
(* A text is a sequence of one-character strings, so that len(), slicing   *)
(* and the character tests of the Python code are ordinary sequence        *)
(* operations.                                                             *)
(***************************************************************************)
EXTENDS Integers, Sequences, FiniteSets, TLC

VARIABLES
    \* ---- chunk_text (txt_writer.py:9-23) and the chunk branch of write ----
    text,           \* parameter `text`
    chunk_size,     \* parameter `chunk_size`
    overlap_arg,    \* parameter `overlap` as the caller passed it
    overlap,        \* `overlap` after line 12 rebinds it
    n,              \* local `n`
    start,          \* local `start`
    chunks,         \* local `chunks`, the returned list
    windows,        \* history: the <<start, end>> of every appended chunk
    cpc,            \* position in chunk_text / TxtWriter.write
    part_files,     \* part index -> content written by the chunk branch
    \* ---- _clean_text and its uses in the readers ----
    reader,         \* whose copy of _clean_text runs: "docx" or "pdf"
    raw,            \* the string handed to the reader by the document library
    keep_empty,     \* read option keep_empty_paragraphs
    cleaned,        \* _clean_text(raw)
    recleaned,      \* _clean_text(cleaned)
    emitted,        \* the block texts / cell texts the reader emits for raw
    npc,            \* position of the normalizer run
    \* ---- PluginRegistry, CoreEngine.convert and the file system ----
    \* The parameters and locals of convert are per caller (thread): each is a
    \* function on Callers.
    _readers,       \* PluginRegistry._readers: lowercased extension -> class
    _writers,       \* PluginRegistry._writers: lowercased extension -> class
    input_path,     \* parameter `input_path` of the caller's convert call
    output_path,    \* parameter `output_path`
    write_options,  \* parameter `write_options`
    ReaderCls,      \* local `ReaderCls`
    WriterCls,      \* local `WriterCls`
    doc_model,      \* local `model`: the blocks the reader returned
    raised,         \* the exception convert raised, or NoError
    epc,            \* position in convert
    dirs,           \* the directories that exist
    files,          \* the output-side files that exist: file name -> content
    dirs0,          \* history: dirs when the caller's call started
    files0,         \* history: files when the caller's call started
    io_log,         \* history: the constructions and I/O of the caller's call
    plugin_error,   \* history: the exception the reader or writer raised
    calls,          \* number of convert calls the caller started
    \* ---- the PluginRegistry operations called directly ----
    reg_log,        \* history: the register_reader / register_writer calls
    reg_call,       \* the last PluginRegistry call and what it returned
    \* ---- i18n and TxtWriter.write block by block ----
    locale,         \* i18n.locale, the attribute of the process-wide singleton
    locale0,        \* history: i18n.locale when write was called
    w_model,        \* parameter `model`: its blocks
    w_path,         \* parameter `output_path`
    w_options,      \* parameter `options`
    out_lines,      \* local `out_lines`
    table_lines,    \* what the last _format_table call returned
    w_i,            \* index of the block the loop of line 42 is at
    w_text,         \* local `text`
    wpc,            \* position in write
    \* ---- the batch loops of the CLI and of the GUI worker ----
    frontend,       \* "cli" (convert_cmd) or "gui" (the worker thread)
    batch_files,    \* the files of the batch, in list order
    batch_opts,     \* enable_chunk, the output directory and out_ext
    b_i,            \* index of the file the loop is at
    bpc,            \* position in the batch
    invoked,        \* history: the input paths CoreEngine.convert was called with
    reports,        \* the success and failure reports produced, in order
    \* ---- PdfReader.read and DocxReader.read, step by step ----
    r_reader,       \* the class whose read runs: "PdfReader" or "DocxReader"
    r_file,         \* what the document library finds in the file
    r_options,      \* parameter `options`
    r_blocks,       \* model.blocks
    r_i,            \* index of the page, section or body element the loop is at
    rpc,            \* position in read
    \* ---- MainWindow: the GUI thread's side of a conversion ----
    _is_converting, \* MainWindow._is_converting
    convert_btn,    \* state of the Convert button: "normal" or "disabled"
    self_files,     \* MainWindow.files, the list behind the list box
    gui_opts,       \* the values of the option widgets
    threads         \* history: number of worker threads started

chunk_vars == <<text, chunk_size, overlap_arg, overlap, n, start, chunks,
                windows, cpc, part_files>>

clean_vars == <<reader, raw, keep_empty, cleaned, recleaned, emitted, npc>>

engine_vars == <<_readers, _writers, input_path, output_path, write_options,
                 ReaderCls, WriterCls, doc_model, raised, epc, dirs, files,
                 dirs0, files0, io_log, plugin_error, calls>>

registry_vars == <<reg_log, reg_call>>

writer_vars == <<locale, locale0, w_model, w_path, w_options, out_lines,
                 table_lines, w_i, w_text, wpc>>

batch_vars == <<frontend, batch_files, batch_opts, b_i, bpc, invoked, reports>>

read_vars == <<r_reader, r_file, r_options, r_blocks, r_i, rpc>>

gui_vars == <<_is_converting, convert_btn, self_files, gui_opts, threads>>

vars == <<chunk_vars, clean_vars, engine_vars, registry_vars, writer_vars,
          batch_vars, read_vars, gui_vars>>

-----------------------------------------------------------------------------
(* Bounds of the model *)

MaxTextLen == 16
MaxShortLen == 3
MaxChunkSize == 6
MaxOverlap == 7
MaxRawLen == 4
MaxCalls == 2

-----------------------------------------------------------------------------
(* Generic helpers: Python built-ins used by the code *)

Min(a, b) == IF a <= b THEN a ELSE b
Max(a, b) == IF a >= b THEN a ELSE b

\* text[lo:hi] for 0 <= lo: Python clamps hi to len(text) and yields "" when
\* lo >= hi.
Slice(s, lo, hi) == SubSeq(s, lo + 1, Min(hi, Len(s)))

\* All sequences over S of length at most k.
SeqsUpTo(S, k) == UNION {[1..m -> S] : m \in 0..k}

-----------------------------------------------------------------------------
(* PluginRegistry (registry.py:31-59) *)

\* str.lower() on the characters that occur in the extensions of the model.
LowerChar(c) ==
    CASE c = "D" -> "d" [] c = "O" -> "o" [] c = "C" -> "c" [] c = "X" -> "x"
      [] c = "T" -> "t" [] c = "P" -> "p" [] c = "F" -> "f"
      [] OTHER -> c
LowerIdentity(s) == s
Lower(s) == [i \in 1..Len(s) |-> LowerChar(s[i])]

DotDocx == <<".", "d", "o", "c", "x">>
DotPdf == <<".", "p", "d", "f">>
DotTxt == <<".", "t", "x", "t">>

\* `None`, the result of dict.get for a missing key.
None == "None"

DotDOCX == <<".", "D", "O", "C", "X">>
DotTXT == <<".", "T", "X", "T">>

\* get_supported_extensions of the three plugin classes
\* (docx_reader.py:31-32, pdf_reader.py:24-26, txt_writer.py:27-28), and of
\* two further plugin classes that declare extensions in upper case, twice,
\* and in competition with the three.
get_supported_extensions(cls) ==
    CASE cls = "DocxReader" -> <<DotDocx>>
      [] cls = "PdfReader" -> <<DotPdf>>
      [] cls = "TxtWriter" -> <<DotTxt>>
      [] cls = "AltReader" -> <<DotDOCX, DotTxt, DotDocx>>
      [] cls = "AltWriter" -> <<DotTXT, DotPdf>>

\* register_reader / register_writer: `registry[ext.lower()] = cls` for every
\* supported extension; a later registration replaces an earlier one.
RegisterKeepFirst(registry, cls) ==
    LET exts == {Lower(get_supported_extensions(cls)[i]) :
                    i \in 1..Len(get_supported_extensions(cls))}
    IN  [e \in (DOMAIN registry) \cup exts |->
            IF e \in DOMAIN registry THEN registry[e] ELSE cls]
Register(registry, cls) ==
    LET exts == {Lower(get_supported_extensions(cls)[i]) :
                    i \in 1..Len(get_supported_extensions(cls))}
    IN  [e \in (DOMAIN registry) \cup exts |->
            IF e \in exts THEN cls ELSE registry[e]]

\* An empty dict.
EmptyDict == [e \in {} |-> None]

\* The registry after the plugin modules are imported
\* (docx_reader.py:91, pdf_reader.py:85, txt_writer.py:100).
StartupReaders == Register(Register(EmptyDict, "DocxReader"), "PdfReader")
StartupWriters == Register(EmptyDict, "TxtWriter")

\* registry.py:45-47: `cls._readers.get(ext.lower())`
get_reader(ext) ==
    IF Lower(ext) \in DOMAIN _readers THEN _readers[Lower(ext)] ELSE None

\* registry.py:49-51: `cls._writers.get(ext.lower())`
get_writer_or_default(ext) ==
    IF Lower(ext) \in DOMAIN _writers THEN _writers[Lower(ext)] ELSE "TxtWriter"
get_writer(ext) ==
    IF Lower(ext) \in DOMAIN _writers THEN _writers[Lower(ext)] ELSE None

\* An exception: its class, its message, and for a ConversionFailedError the
\* class and message of the exception it wraps (its message is msg followed by
\* cause_msg). ext is the extension an UnsupportedExtensionError names.
Error(kind, msg, ext, cause_kind, cause_msg) ==
    [kind |-> kind, msg |-> msg, ext |-> ext,
     cause_kind |-> cause_kind, cause_msg |-> cause_msg]

NoError == Error("none", "", <<>>, "none", "")

\* A path: Path(p).parent, Path(p).stem and Path(p).suffix.
Path(d, stem, suffix) == [dir |-> d, stem |-> stem, suffix |-> suffix]

\* No registry operation has been called directly.
RegistryCall(fn, ext, result) == [fn |-> fn, ext |-> ext, result |-> result]
IdleRegistry ==
    /\ reg_log = <<>>
    /\ reg_call = RegistryCall("none", <<>>, None)

\* No batch is running.
IdleBatch ==
    /\ frontend = "none"
    /\ batch_files = <<>>
    /\ batch_opts = [enable_chunk |-> FALSE, out_dir |-> "", out_ext |-> <<>>]
    /\ b_i = 0
    /\ bpc = "idle"
    /\ invoked = <<>>
    /\ reports = <<>>

\* TxtWriter.write has not been called; i18n is as constructed (i18n.py:16).
IdleWriter ==
    /\ locale = "en-US"
    /\ locale0 = "en-US"
    /\ w_model = <<>>
    /\ w_path = Path("", <<>>, <<>>)
    /\ w_options = [include_tables |-> TRUE, table_format |-> "tsv",
                    normalize_tables |-> TRUE, enable_chunk |-> FALSE,
                    chunk_size |-> 0, overlap |-> 0]
    /\ out_lines = <<>>
    /\ table_lines = <<>>
    /\ w_i = 0
    /\ w_text = <<>>
    /\ wpc = "idle"

\* No reader is reading.
IdleRead ==
    /\ r_reader = "none"
    /\ r_file = <<>>
    /\ r_options = [include_headers |-> FALSE, include_footers |-> FALSE,
                    include_tables |-> TRUE, keep_empty_paragraphs |-> FALSE]
    /\ r_blocks = <<>>
    /\ r_i = 0
    /\ rpc = "idle"

\* The main window as constructed (main_window.py:59-80), with no file.
IdleGui ==
    /\ _is_converting = FALSE
    /\ convert_btn = "normal"
    /\ self_files = <<>>
    /\ gui_opts = [enable_chunk |-> FALSE, output_mode |-> "same", out_dir |-> "",
                   chunk_size |-> "3"]
    /\ threads = 0

\* The threads that may be inside CoreEngine.convert.
Callers == {"t1", "t2"}

\* No caller is inside convert.
NoCalls ==
    /\ input_path = [t \in Callers |-> Path("", <<>>, <<>>)]
    /\ output_path = [t \in Callers |-> Path("", <<>>, <<>>)]
    /\ write_options = [t \in Callers |->
                          [enable_chunk |-> FALSE, chunk_size |-> 0, overlap |-> 0]]
    /\ ReaderCls = [t \in Callers |-> None]
    /\ WriterCls = [t \in Callers |-> None]
    /\ doc_model = [t \in Callers |-> <<>>]
    /\ raised = [t \in Callers |-> NoError]
    /\ epc = [t \in Callers |-> "idle"]
    /\ io_log = [t \in Callers |-> <<>>]
    /\ plugin_error = [t \in Callers |-> NoError]
    /\ calls = [t \in Callers |-> 0]

\* No convert call has been made; the registry is populated.
IdleEngine ==
    /\ _readers = StartupReaders
    /\ _writers = StartupWriters
    /\ NoCalls
    /\ dirs = {}
    /\ files = <<>>
    /\ dirs0 = [t \in Callers |-> {}]
    /\ files0 = [t \in Callers |-> <<>>]

-----------------------------------------------------------------------------
(* chunk_text *)

\* The text of test_txt_writer_chunking after rendering: "Hello World 123\n".
SampleText == <<"H","e","l","l","o"," ","W","o","r","l","d"," ","1","2","3","\n">>

\* The first k characters of SampleText repeated for ever.
SampleOfLen(k) == [i \in 1..k |-> SampleText[((i - 1) % Len(SampleText)) + 1]]

Texts == {SampleOfLen(k) : k \in 0..MaxTextLen}
            \cup SeqsUpTo({"a", "b"}, MaxShortLen)
ChunkSizes == (-1)..MaxChunkSize
Overlaps == (-2)..MaxOverlap

\* line 10: `if chunk_size <= 0`
NoChunkingMut(cs) == cs < 0
NoChunking(cs) == cs <= 0

\* line 12: `max(0, min(overlap, chunk_size - 1)) if chunk_size > 1 else 0`
ClampOverlapNoUpper(cs, ov) == IF cs > 1 THEN Max(0, Min(ov, cs)) ELSE 0
ClampOverlapNoLower(cs, ov) == IF cs > 1 THEN Min(ov, cs - 1) ELSE 0
ClampOverlap(cs, ov) == IF cs > 1 THEN Max(0, Min(ov, cs - 1)) ELSE 0

\* line 17: `while start < n`
LoopCondMut(st, len) == st <= len
LoopCond(st, len) == st < len

\* line 18: `end = min(n, start + chunk_size)`
WindowEndMut(len, st, cs) == Min(len, st + cs + 1)
WindowEnd(len, st, cs) == Min(len, st + cs)

\* line 22: `start = end - overlap`
NextStartMut(end, ov) == end
NextStart(end, ov) == end - ov

\* The normalizer is not running.
IdleClean ==
    /\ reader = "none"
    /\ raw = <<>>
    /\ keep_empty = FALSE
    /\ cleaned = <<>>
    /\ recleaned = <<>>
    /\ emitted = <<>>
    /\ npc = "idle"

InitChunk ==
    /\ text \in Texts
    /\ chunk_size \in ChunkSizes
    /\ overlap_arg \in Overlaps
    /\ overlap = overlap_arg
    /\ n = 0
    /\ start = 0
    /\ chunks = <<>>
    /\ windows = <<>>
    /\ cpc = "call"
    /\ part_files = <<>>
    /\ IdleClean
    /\ IdleGui
    /\ IdleEngine
    /\ IdleRegistry
    /\ IdleRead
    /\ IdleWriter
    /\ IdleBatch

\* lines 10-16: the early return, the clamp, the locals.
ChunkEntry ==
    /\ cpc = "call"
    /\ IF NoChunking(chunk_size)
         THEN /\ chunks' = <<text>>
              /\ windows' = <<<<0, Len(text)>>>>
              /\ cpc' = "return"
              /\ UNCHANGED <<overlap, n, start>>
         ELSE /\ overlap' = ClampOverlap(chunk_size, overlap_arg)
              /\ chunks' = <<>>
              /\ n' = Len(text)
              /\ start' = 0
              /\ cpc' = "while"
              /\ UNCHANGED windows
    /\ UNCHANGED <<text, chunk_size, overlap_arg, part_files>>
    /\ UNCHANGED <<clean_vars, engine_vars, registry_vars, writer_vars, batch_vars,
                   read_vars, gui_vars>>

\* lines 17-22: one iteration of the loop.
ChunkIter ==
    /\ cpc = "while"
    /\ LoopCond(start, n)
    /\ LET end == WindowEnd(n, start, chunk_size) IN
         /\ chunks' = Append(chunks, Slice(text, start, end))
         /\ windows' = Append(windows, <<start, end>>)
         /\ IF end >= n
              THEN cpc' = "return" /\ UNCHANGED start
              ELSE cpc' = "while" /\ start' = NextStart(end, overlap)
    /\ UNCHANGED <<text, chunk_size, overlap_arg, overlap, n, part_files>>
    /\ UNCHANGED <<clean_vars, engine_vars, registry_vars, writer_vars, batch_vars,
                   read_vars, gui_vars>>

\* line 17 false, line 23: the loop is left without a break.
ChunkExit ==
    /\ cpc = "while"
    /\ ~LoopCond(start, n)
    /\ cpc' = "return"
    /\ UNCHANGED <<text, chunk_size, overlap_arg, overlap, n, start, chunks,
                   windows, part_files>>
    /\ UNCHANGED <<clean_vars, engine_vars, registry_vars, writer_vars, batch_vars,
                   read_vars, gui_vars>>

\* TxtWriter.write lines 74-76: `for idx, c in enumerate(chunks, start=1)`
\* writes chunk idx to the part file numbered idx.
WriteParts ==
    /\ cpc = "return"
    /\ part_files' = [idx \in 1..Len(chunks) |-> chunks[idx]]
    /\ cpc' = "written"
    /\ UNCHANGED <<text, chunk_size, overlap_arg, overlap, n, start, chunks,
                   windows>>
    /\ UNCHANGED <<clean_vars, engine_vars, registry_vars, writer_vars, batch_vars,
                   read_vars, gui_vars>>

NextChunk == ChunkEntry \/ ChunkIter \/ ChunkExit \/ WriteParts

SpecChunk == InitChunk /\ [][NextChunk]_vars

SpecChunkFair == SpecChunk /\ WF_vars(NextChunk)

-----------------------------------------------------------------------------
(* Properties of chunk_text *)

\* chunk_text has returned (and write may have written the part files).
Returned == cpc \in {"return", "written"}

\* s with its first k characters removed.
Drop(s, k) == SubSeq(s, k + 1, Len(s))

\* Chunk 1 whole, then every later chunk without its first k characters.
RECURSIVE Reassemble(_, _)
Reassemble(cks, k) ==
    IF cks = <<>> THEN <<>>
    ELSE IF Len(cks) = 1 THEN cks[1]
    ELSE Reassemble(SubSeq(cks, 1, Len(cks) - 1), k) \o Drop(cks[Len(cks)], k)

ChunkLengths == [i \in 1..Len(chunks) |-> Len(chunks[i])]
ChunkStarts == [i \in 1..Len(windows) |-> windows[i][1]]
ChunkEnds == [i \in 1..Len(windows) |-> windows[i][2]]

\* C1: for chunk_size > 0 and 0 <= overlap < chunk_size the returned chunks
\* reconstruct the text exactly (chunk 1 whole, every later chunk appended
\* without its first `overlap` characters), and the last chunk ends at the
\* final character of the text.
C1_Reconstructs ==
    (Returned /\ chunk_size > 0 /\ 0 <= overlap_arg /\ overlap_arg < chunk_size)
        => /\ \A i \in 2..Len(chunks) : Len(chunks[i]) >= overlap_arg
           /\ Reassemble(chunks, overlap_arg) = text
           /\ chunks # <<>> => ChunkEnds[Len(chunks)] = Len(text)

C1_Witness ==
    /\ Returned /\ chunk_size > 0 /\ 2 <= overlap_arg /\ overlap_arg < chunk_size
    /\ Len(chunks) >= 3
    /\ Len(chunks[Len(chunks)]) < chunk_size

\* C2: for chunk_size > 0 and any integer overlap, no chunk is longer than
\* chunk_size and every chunk but the last has exactly chunk_size characters.
C2_ChunkLengths ==
    (Returned /\ chunk_size > 0)
        => \A i \in 1..Len(chunks) :
              /\ Len(chunks[i]) <= chunk_size
              /\ i < Len(chunks) => Len(chunks[i]) = chunk_size

C2_Witness ==
    /\ Returned /\ chunk_size > 1
    /\ overlap_arg < 0
    /\ Len(chunks) >= 3
    /\ Len(chunks[Len(chunks)]) < chunk_size

\* The window start strictly increases from one loop iteration to the next
\* and stays inside the text.
StrictProgress ==
    (cpc = "while" /\ cpc' = "while")
        => (start' > start /\ start' < n)

\* Exactly one returned chunk ends at n = len(text), and it is the last.
OneChunkEndsAtN ==
    /\ Cardinality({i \in 1..Len(windows) : ChunkEnds[i] = Len(text)}) = 1
    /\ ChunkEnds[Len(windows)] = Len(text)

\* C3 as stated: chunk_text terminates for every text, chunk_size and
\* overlap, the window start strictly increases on every loop iteration, and
\* exactly one returned chunk ends at n = len(text), namely the last one.
C3_Original ==
    /\ [][StrictProgress]_vars
    /\ [](Returned => OneChunkEndsAtN)
    /\ <>Returned

\* C3 amended: as C3, but exactly one returned chunk ends at n only when a
\* chunk is returned at all, that is unless the text is empty and
\* chunk_size > 0 (then the result is the empty list).
C3_Terminates ==
    /\ [][StrictProgress]_vars
    /\ []((Returned /\ ~(text = <<>> /\ chunk_size > 0)) => OneChunkEndsAtN)
    /\ []((Returned /\ text = <<>> /\ chunk_size > 0) => chunks = <<>>)
    /\ <>Returned

C3_Witness ==
    /\ Returned /\ chunk_size > 1 /\ overlap_arg >= chunk_size
    /\ text # <<>>
    /\ Len(windows) >= 3

\* The chunks of t for window size cs >= 1 and an overlap c in 0..cs-1, in
\* closed form: chunk i covers [(i-1)*(cs-c), (i-1)*(cs-c) + cs), and the first
\* chunk that reaches the end of t is the last.
ExpectedChunks(t, cs, c) ==
    LET stride == cs - c
        len == Len(t)
        k == IF len = 0 THEN 0
             ELSE CHOOSE j \in 1..len :
                    /\ (j - 1) * stride + cs >= len
                    /\ \A i \in 1..(j - 1) : (i - 1) * stride + cs < len
    IN  [i \in 1..k |-> Slice(t, (i - 1) * stride, (i - 1) * stride + cs)]

\* C4: the overlap is clamped before splitting: for chunk_size > 1 the result
\* is the one for max(0, min(overlap, chunk_size - 1)); for chunk_size = 1 it
\* is the one for overlap 0, one chunk per character.
C4_Clamped ==
    /\ (Returned /\ chunk_size > 1)
          => chunks = ExpectedChunks(text, chunk_size,
                                     Max(0, Min(overlap_arg, chunk_size - 1)))
    /\ (Returned /\ chunk_size = 1)
          => /\ chunks = ExpectedChunks(text, 1, 0)
             /\ chunks = [i \in 1..Len(text) |-> <<text[i]>>]

C4_Witness ==
    /\ Returned /\ chunk_size > 1 /\ overlap_arg < 0
    /\ Len(chunks) >= 3

\* C5: for chunk_size <= 0 chunk_text returns [text] for every text (the
\* empty one too) and every overlap, so the chunk branch of write produces
\* exactly one part file, holding the whole text.
C5_NoChunking ==
    /\ (Returned /\ chunk_size <= 0) => chunks = <<text>>
    /\ (cpc = "written" /\ chunk_size <= 0)
          => (DOMAIN part_files = {1} /\ part_files[1] = text)

C5_Witness ==
    /\ cpc = "written" /\ chunk_size = 0 /\ text = <<>> /\ overlap_arg > 0
    /\ Len(part_files) = 1

\* The inputs of the scenario: a text of 16 characters, chunk_size 5,
\* overlap 1.
Scenario16 == Len(text) = 16 /\ chunk_size = 5 /\ overlap_arg = 1

\* C6 as stated: the scenario returns four chunks of lengths [5, 5, 5, 1]
\* whose start offsets are [0, 4, 8, 12].
C6_Original ==
    (Returned /\ Scenario16)
        => (ChunkLengths = <<5, 5, 5, 1>> /\ ChunkStarts = <<0, 4, 8, 12>>)

\* C6 amended: the scenario returns four chunks of lengths [5, 5, 5, 4]
\* whose start offsets are [0, 4, 8, 12].
C6_Scenario ==
    (Returned /\ Scenario16)
        => (ChunkLengths = <<5, 5, 5, 4>> /\ ChunkStarts = <<0, 4, 8, 12>>)

C6_Witness == Returned /\ Scenario16 /\ text = SampleText /\ Len(chunks) = 4

\* C7: on the empty text with chunk_size > 0 chunk_text returns no chunk at
\* all, not one empty chunk.
C7_EmptyText ==
    (Returned /\ text = <<>> /\ chunk_size > 0) => chunks = <<>>

C7_Witness ==
    cpc = "return" /\ text = <<>> /\ chunk_size > 0 /\ chunks = <<>>

-----------------------------------------------------------------------------
(* _clean_text (docx_reader.py:14-19, pdf_reader.py:9-18) *)

SP == " "
TAB == "\t"
CR == "\r"
LF == "\n"
FF == "\f"

\* The characters of the raw strings: a letter, the characters _clean_text
\* names, and a form feed, which str.strip() removes and [ \t]+ does not match.
RawChars == {"a", SP, TAB, CR, LF, FF}
RawTexts == SeqsUpTo(RawChars, MaxRawLen)

\* The characters str.strip() without argument removes, among RawChars.
PyWhitespace == {SP, TAB, CR, LF, FF}

\* s.replace("\r\n", "\n"): left to right, non-overlapping.
RECURSIVE ReplaceCRLF(_)
ReplaceCRLF(s) ==
    IF s = <<>> THEN <<>>
    ELSE IF Len(s) >= 2 /\ s[1] = CR /\ s[2] = LF
         THEN <<LF>> \o ReplaceCRLF(SubSeq(s, 3, Len(s)))
         ELSE <<s[1]>> \o ReplaceCRLF(Tail(s))

\* s.replace("\r", "\n")
ReplaceCR(s) == [i \in 1..Len(s) |-> IF s[i] = CR THEN LF ELSE s[i]]

\* s.split("\n"): the pieces between the newlines, empty ones included.
RECURSIVE SplitLF(_)
SplitLF(s) ==
    IF \A i \in 1..Len(s) : s[i] # LF THEN <<s>>
    ELSE LET k == CHOOSE i \in 1..Len(s) :
                    s[i] = LF /\ \A j \in 1..(i - 1) : s[j] # LF
         IN  <<SubSeq(s, 1, k - 1)>> \o SplitLF(SubSeq(s, k + 1, Len(s)))

\* _WS_RE.sub(" ", line) with _WS_RE = [ \t]+ : every maximal run of spaces
\* and tabs becomes one space.
RECURSIVE WsSubSpacesOnly(_)
WsSubSpacesOnly(line) ==
    IF line = <<>> THEN <<>>
    ELSE IF line[1] = SP
         THEN LET rest == Tail(line)
                  k == IF \A i \in 1..Len(rest) : rest[i] = SP
                       THEN Len(rest) + 1
                       ELSE CHOOSE i \in 1..Len(rest) :
                              rest[i] # SP /\ \A j \in 1..(i - 1) : rest[j] = SP
              IN  <<SP>> \o WsSubSpacesOnly(SubSeq(rest, k, Len(rest)))
         ELSE <<line[1]>> \o WsSubSpacesOnly(Tail(line))

RECURSIVE WsSub(_)
WsSub(line) ==
    IF line = <<>> THEN <<>>
    ELSE IF line[1] \in {SP, TAB}
         THEN LET rest == Tail(line)
                  k == IF \A i \in 1..Len(rest) : rest[i] \in {SP, TAB}
                       THEN Len(rest) + 1
                       ELSE CHOOSE i \in 1..Len(rest) :
                              /\ rest[i] \notin {SP, TAB}
                              /\ \A j \in 1..(i - 1) : rest[j] \in {SP, TAB}
              IN  <<SP>> \o WsSub(SubSeq(rest, k, Len(rest)))
         ELSE <<line[1]>> \o WsSub(Tail(line))

\* s.strip(cs): s without its leading and trailing characters that are in cs.
StripChars(s, cs) ==
    IF \A i \in 1..Len(s) : s[i] \in cs THEN <<>>
    ELSE LET lo == CHOOSE i \in 1..Len(s) :
                     s[i] \notin cs /\ \A j \in 1..(i - 1) : s[j] \in cs
             hi == CHOOSE i \in 1..Len(s) :
                     s[i] \notin cs /\ \A j \in (i + 1)..Len(s) : s[j] \in cs
         IN  SubSeq(s, lo, hi)

\* line.strip()
Strip(line) == StripChars(line, PyWhitespace)

\* "\n".join(lines)
RECURSIVE JoinLF(_)
JoinLF(lines) ==
    IF lines = <<>> THEN <<>>
    ELSE IF Len(lines) = 1 THEN lines[1]
    ELSE lines[1] \o <<LF>> \o JoinLF(Tail(lines))

\* joined.strip("\n")
StripLFOnce(s) ==
    LET a == IF s # <<>> /\ s[1] = LF THEN Tail(s) ELSE s
    IN  IF a # <<>> /\ a[Len(a)] = LF THEN SubSeq(a, 1, Len(a) - 1) ELSE a
StripLF(s) == StripChars(s, {LF})

\* docx_reader.py:16-19
docx_clean_text(s) ==
    LET s1 == ReplaceCR(ReplaceCRLF(s))
        split == SplitLF(s1)
        lines == [i \in 1..Len(split) |-> Strip(WsSub(split[i]))]
    IN  StripLF(JoinLF(lines))

\* pdf_reader.py:14-18, the same text as the docx reader's copy
pdf_clean_text(s) ==
    LET s1 == ReplaceCR(ReplaceCRLF(s))
        split == SplitLF(s1)
        lines == [i \in 1..Len(split) |-> Strip(WsSub(split[i]))]
    IN  StripLF(JoinLF(lines))

\* The copy of _clean_text the reader r calls.
clean_text(r, s) == IF r = "docx" THEN docx_clean_text(s) ELSE pdf_clean_text(s)

\* The elements of seq that satisfy keep, in order.
RECURSIVE FilterLines(_, _)
FilterLines(seq, keep) ==
    IF seq = <<>> THEN <<>>
    ELSE (IF seq[1] # <<>> \/ keep THEN <<seq[1]>> ELSE <<>>)
            \o FilterLines(Tail(seq), keep)

\* f"Page {page_num}" for page 1
PageMarker == <<"P", "a", "g", "e", " ", "1">>

\* The chunker is not running.
IdleChunk ==
    /\ text = <<>>
    /\ chunk_size = 0
    /\ overlap_arg = 0
    /\ overlap = 0
    /\ n = 0
    /\ start = 0
    /\ chunks = <<>>
    /\ windows = <<>>
    /\ cpc = "idle"
    /\ part_files = <<>>

InitClean ==
    /\ reader \in {"docx", "pdf"}
    /\ raw \in RawTexts
    /\ keep_empty \in BOOLEAN
    /\ cleaned = <<>>
    /\ recleaned = <<>>
    /\ emitted = <<>>
    /\ npc = "raw"
    /\ IdleChunk
    /\ IdleEngine
    /\ IdleRegistry
    /\ IdleRead
    /\ IdleWriter
    /\ IdleBatch
    /\ IdleGui

\* t = _clean_text(raw)
CleanOnce ==
    /\ npc = "raw"
    /\ cleaned' = clean_text(reader, raw)
    /\ npc' = "once"
    /\ UNCHANGED <<reader, raw, keep_empty, recleaned, emitted>>
    /\ UNCHANGED <<chunk_vars, engine_vars, registry_vars, writer_vars, batch_vars,
                   read_vars, gui_vars>>

\* _clean_text applied to its own result
CleanTwice ==
    /\ npc = "once"
    /\ recleaned' = clean_text(reader, cleaned)
    /\ npc' = "twice"
    /\ UNCHANGED <<reader, raw, keep_empty, cleaned, emitted>>
    /\ UNCHANGED <<chunk_vars, engine_vars, registry_vars, writer_vars, batch_vars,
                   read_vars, gui_vars>>

\* DocxReader.read lines 68-71 (and 47-49, 59-61): one paragraph whose text
\* is raw.
DocxParagraph ==
    /\ npc = "raw" /\ reader = "docx"
    /\ LET t == docx_clean_text(raw) IN
         emitted' = IF t # <<>> \/ keep_empty THEN <<t>> ELSE <<>>
    /\ npc' = "emitted"
    /\ UNCHANGED <<reader, raw, keep_empty, cleaned, recleaned>>
    /\ UNCHANGED <<chunk_vars, engine_vars, registry_vars, writer_vars, batch_vars,
                   read_vars, gui_vars>>

\* DocxReader._parse_table line 80: one cell whose text is raw.
DocxCell ==
    /\ npc = "raw" /\ reader = "docx"
    /\ emitted' = <<docx_clean_text(raw)>>
    /\ npc' = "emitted"
    /\ UNCHANGED <<reader, raw, keep_empty, cleaned, recleaned>>
    /\ UNCHANGED <<chunk_vars, engine_vars, registry_vars, writer_vars, batch_vars,
                   read_vars, gui_vars>>

\* PdfReader.read lines 48-64: page 1, whose extract_text() is raw.
PdfPage ==
    /\ npc = "raw" /\ reader = "pdf"
    /\ \E include_headers \in BOOLEAN :
         emitted' =
            (IF include_headers THEN <<PageMarker>> ELSE <<>>)
            \o (IF raw # <<>>
                  THEN FilterLines(SplitLF(pdf_clean_text(raw)), keep_empty)
                  ELSE IF keep_empty THEN << <<>> >> ELSE <<>>)
    /\ npc' = "emitted"
    /\ UNCHANGED <<reader, raw, keep_empty, cleaned, recleaned>>
    /\ UNCHANGED <<chunk_vars, engine_vars, registry_vars, writer_vars, batch_vars,
                   read_vars, gui_vars>>

\* PdfReader.read lines 76-79: one table cell; a None or empty cell gives "".
PdfCell ==
    /\ npc = "raw" /\ reader = "pdf"
    /\ emitted' = <<IF raw # <<>> THEN pdf_clean_text(raw) ELSE <<>>>>
    /\ npc' = "emitted"
    /\ UNCHANGED <<reader, raw, keep_empty, cleaned, recleaned>>
    /\ UNCHANGED <<chunk_vars, engine_vars, registry_vars, writer_vars, batch_vars,
                   read_vars, gui_vars>>

NextClean ==
    CleanOnce \/ CleanTwice \/ DocxParagraph \/ DocxCell \/ PdfPage \/ PdfCell

SpecClean == InitClean /\ [][NextClean]_vars

-----------------------------------------------------------------------------
(* Properties of _clean_text *)

\* C8: _clean_text is idempotent, for the docx reader's copy and for the pdf
\* reader's: _clean_text(_clean_text(s)) = _clean_text(s) for every s.
C8_Idempotent == (npc = "twice") => (recleaned = cleaned)

C8_Witness ==
    /\ npc = "twice" /\ reader = "pdf"
    /\ cleaned # raw /\ cleaned # <<>>
    /\ \E i \in 1..Len(cleaned) : cleaned[i] = LF

\* A normalized string: no carriage return, no tab, no two spaces in a row,
\* no space at the start or the end of a line, no newline at the start or the
\* end.
Normalized(s) ==
    /\ \A i \in 1..Len(s) : s[i] \notin {CR, TAB}
    /\ \A i \in 1..(Len(s) - 1) : ~(s[i] = SP /\ s[i + 1] = SP)
    /\ \A i \in 1..Len(s) :
          s[i] = SP => /\ 1 < i /\ i < Len(s)
                       /\ s[i - 1] # LF /\ s[i + 1] # LF
    /\ s # <<>> => (s[1] # LF /\ s[Len(s)] # LF)

\* C9: every result of _clean_text is normalized, and so is every paragraph
\* text and every table cell a reader emits.
C9_Normalized ==
    /\ npc \in {"once", "twice"} => Normalized(cleaned)
    /\ npc = "emitted" => \A i \in 1..Len(emitted) : Normalized(emitted[i])

C9_Witness ==
    /\ npc = "emitted"
    /\ \E i \in 1..Len(raw) : raw[i] = TAB
    /\ \E i \in 1..Len(raw) : raw[i] = CR
    /\ Len(emitted) >= 2

-----------------------------------------------------------------------------
(* TxtWriter.write (txt_writer.py:30-78), for models of body paragraphs *)

\* chunk_text as a function of its arguments: the loop of lines 17-22 from
\* window start st.
RECURSIVE ChunkLoop(_, _, _, _)
ChunkLoop(t, cs, ov, st) ==
    IF ~LoopCond(st, Len(t)) THEN <<>>
    ELSE LET end == WindowEnd(Len(t), st, cs) IN
           <<Slice(t, st, end)>>
             \o (IF end >= Len(t) THEN <<>>
                 ELSE ChunkLoop(t, cs, ov, NextStart(end, ov)))

\* txt_writer.py:9-23
chunk_text(t, cs, ov) ==
    IF NoChunking(cs) THEN <<t>> ELSE ChunkLoop(t, cs, ClampOverlap(cs, ov), 0)

\* s.rstrip()
RstripNone(s) == s
Rstrip(s) ==
    IF \A i \in 1..Len(s) : s[i] \in PyWhitespace THEN <<>>
    ELSE LET hi == CHOOSE i \in 1..Len(s) :
                     /\ s[i] \notin PyWhitespace
                     /\ \A j \in (i + 1)..Len(s) : s[j] \in PyWhitespace
         IN  SubSeq(s, 1, hi)

\* A body ParagraphBlock (models.py:9-13).
ParagraphBlock(t) == [text |-> t, is_header |-> FALSE, is_footer |-> FALSE]

\* lines 40-49 and 56 for a model whose blocks are body paragraphs:
\* `"\n".join(out_lines).rstrip() + "\n"`
Render(blocks) ==
    Rstrip(JoinLF([i \in 1..Len(blocks) |-> blocks[i].text])) \o <<LF>>

DigitChar(d) ==
    CASE d = 0 -> "0" [] d = 1 -> "1" [] d = 2 -> "2" [] d = 3 -> "3"
      [] d = 4 -> "4" [] d = 5 -> "5" [] d = 6 -> "6" [] d = 7 -> "7"
      [] d = 8 -> "8" [] d = 9 -> "9"

RECURSIVE Decimal(_)
Decimal(i) ==
    IF i < 10 THEN <<DigitChar(i)>>
    ELSE Decimal(i \div 10) \o <<DigitChar(i % 10)>>

\* f"{idx:03d}": the decimal digits, zero-padded on the left to 3 at least.
Format03d(i) ==
    LET d == Decimal(i)
    IN  IF Len(d) >= 3 THEN d ELSE [k \in 1..(3 - Len(d)) |-> "0"] \o d

\* A file of directory d named nm.
File(d, nm) == [dir |-> d, name |-> nm]

\* lines 62-78: the files write writes, in order, each with its content.
\* Chunk idx goes to f"{stem}_part{idx:03d}.txt" in the parent of output_path.
WriteTargets(out_p, options, txt) ==
    IF options.enable_chunk
    THEN LET cks == chunk_text(txt, options.chunk_size, options.overlap)
         IN  [idx \in 1..Len(cks) |->
                [file |-> File(out_p.dir,
                               out_p.stem \o <<"_", "p", "a", "r", "t">>
                                 \o Format03d(idx) \o DotTxt),
                 content |-> cks[idx]]]
    ELSE <<[file |-> File(out_p.dir, out_p.stem \o out_p.suffix),
            content |-> txt]>>

\* fs after write_text on the first k targets; target k + 1 is left empty when
\* trunc (opened and truncated, then the write failed).
AfterWritesOnly(fs, targets, k, trunc) ==
    LET written == {targets[i].file : i \in 1..k}
        cut == IF trunc /\ k < Len(targets) THEN {targets[k + 1].file} ELSE {}
    IN  [f \in written \cup cut |->
            IF f \in written
            THEN targets[CHOOSE i \in 1..k : targets[i].file = f].content
            ELSE <<>>]
AfterWrites(fs, targets, k, trunc) ==
    LET written == {targets[i].file : i \in 1..k}
        cut == IF trunc /\ k < Len(targets) THEN {targets[k + 1].file} ELSE {}
    IN  [f \in (DOMAIN fs) \cup written \cup cut |->
            IF f \in written
            THEN targets[CHOOSE i \in 1..k :
                            /\ targets[i].file = f
                            /\ \A j \in (i + 1)..k : targets[j].file # f].content
            ELSE IF f \in cut THEN <<>> ELSE fs[f]]

-----------------------------------------------------------------------------
(* CoreEngine.convert (engine.py:15-38) *)

DotInvalid == <<".", "i", "n", "v", "a", "l", "i", "d">>

InputPaths ==
    {Path("in", <<"a">>, sfx) : sfx \in {DotDocx, DotDOCX, DotPdf, DotInvalid, <<>>}}
OutputPaths ==
    {Path("out", <<"o">>, sfx) : sfx \in {DotTxt, DotTXT, DotInvalid}}
WriteOptions ==
    [enable_chunk : BOOLEAN, chunk_size : {0, 3}, overlap : {1}]

\* What the input file may hold: the blocks a reader returns for it.
Docs ==
    { <<>>,
      <<ParagraphBlock(<<"a", "b", "c">>)>>,
      <<ParagraphBlock(<<"a", "b">>), ParagraphBlock(<<"c">>)>> }

\* An exception a plugin or the file system raises, before any wrapping.
PluginError(kind, msg) == Error(kind, msg, <<>>, "none", "")

\* reader.read(input_path, read_options): the model of the file, or the error
\* it raises. DocxReader lets the errors of docx.Document through
\* (docx_reader.py:39); PdfReader turns a failed open into a RuntimeError
\* (pdf_reader.py:35-42) and lets an error of page.extract_text through
\* (pdf_reader.py:56).
ReadErrors(cls) ==
    IF cls = "PdfReader"
    THEN {Error("RuntimeError", "Cannot open PDF. OCR is not supported.", <<>>,
                "PDFSyntaxError", "No /Root object"),
          PluginError("PDFTextExtractionNotAllowed", "Text extraction is not allowed")}
    ELSE {PluginError("PackageNotFoundError", "Package not found"),
          PluginError("KeyError", "no relationship of type officeDocument")}

ReadOutcomes(cls) ==
    {[ok |-> TRUE, blocks |-> d, err |-> NoError] : d \in Docs}
    \cup {[ok |-> FALSE, blocks |-> <<>>, err |-> e] : e \in ReadErrors(cls)}

\* The error of a failed mkdir or write_text (txt_writer.py:60, 76, 78).
WriteError == PluginError("PermissionError", "Permission denied")

\* engine.py:37-38: `raise ConversionFailedError(f"Conversion failed: {e}") from e`
ConversionFailedBare(e) ==
    Error("ConversionFailedError", "Conversion failed", <<>>, e.kind, "")
ConversionFailedError(e) ==
    Error("ConversionFailedError", "Conversion failed: ", <<>>, e.kind, e.msg)

\* dict.get (registry.py:47, 51) leaves the dict as it is.
AfterSetdefault(registry, key) ==
    [e \in (DOMAIN registry) \cup {key} |->
        IF e \in DOMAIN registry THEN registry[e] ELSE None]
AfterGet(registry, key) == registry

\* engine.py:32-33: the reader is given input_path only; the directory of
\* output_path is not touched before the writer runs.
DirsAfterReadMkdir(dirs_, out_p) == dirs_ \cup {out_p.dir}
DirsAfterRead(dirs_, out_p) == dirs_

InitEngine ==
    /\ _readers = StartupReaders
    /\ _writers = StartupWriters
    /\ NoCalls
    /\ dirs \in {{"in"}, {"in", "out"}}
    /\ files \in {<<>>} \cup
          (IF "out" \in dirs
             THEN {[f \in {File("out", <<"o">> \o DotTxt)} |-> <<"o", "l", "d">>]}
             ELSE {})
    /\ dirs0 = [t \in Callers |-> dirs]
    /\ files0 = [t \in Callers |-> files]
    /\ IdleChunk
    /\ IdleClean
    /\ IdleGui
    /\ IdleRegistry
    /\ IdleRead
    /\ IdleWriter
    /\ IdleBatch

\* Caller t enters CoreEngine.convert(ip, op, {}, wo).
Invoke(t, ip, op, wo) ==
    /\ input_path' = [input_path EXCEPT ![t] = ip]
    /\ output_path' = [output_path EXCEPT ![t] = op]
    /\ write_options' = [write_options EXCEPT ![t] = wo]
    /\ ReaderCls' = [ReaderCls EXCEPT ![t] = None]
    /\ WriterCls' = [WriterCls EXCEPT ![t] = None]
    /\ doc_model' = [doc_model EXCEPT ![t] = <<>>]
    /\ raised' = [raised EXCEPT ![t] = NoError]
    /\ epc' = [epc EXCEPT ![t] = "get_reader"]
    /\ dirs0' = [dirs0 EXCEPT ![t] = dirs]
    /\ files0' = [files0 EXCEPT ![t] = files]
    /\ io_log' = [io_log EXCEPT ![t] = <<>>]
    /\ plugin_error' = [plugin_error EXCEPT ![t] = NoError]
    /\ calls' = [calls EXCEPT ![t] = calls[t] + 1]
    /\ UNCHANGED <<_readers, _writers, dirs, files>>

\* A caller invokes CoreEngine.convert(input_path, output_path, {}, options),
\* one call after the other.
ConvertCall(t) ==
    /\ epc[t] \in {"idle", "returned", "raised"}
    /\ calls[t] < MaxCalls
    /\ \E ip \in InputPaths, op \in OutputPaths, wo \in WriteOptions :
         Invoke(t, ip, op, wo)
    /\ UNCHANGED <<chunk_vars, clean_vars, registry_vars, writer_vars, batch_vars,
                   read_vars, gui_vars>>

\* lines 20, 23-25: the reader lookup by the lowercased input suffix.
ConvertGetReader(t) ==
    /\ epc[t] = "get_reader"
    /\ LET in_ext == Lower(input_path[t].suffix)
           cls == get_reader(in_ext)
       IN  /\ ReaderCls' = [ReaderCls EXCEPT ![t] = cls]
           /\ _readers' = AfterGet(_readers, Lower(in_ext))
           /\ IF cls = None
                THEN /\ raised' = [raised EXCEPT ![t] =
                                      Error("UnsupportedExtensionError",
                                            "No reader found for extension",
                                            in_ext, "none", "")]
                     /\ epc' = [epc EXCEPT ![t] = "raised"]
                ELSE /\ epc' = [epc EXCEPT ![t] = "get_writer"]
                     /\ UNCHANGED raised
    /\ UNCHANGED <<_writers, input_path, output_path, write_options,
                   WriterCls, doc_model, dirs, files, dirs0, files0, io_log,
                   plugin_error, calls>>
    /\ UNCHANGED <<chunk_vars, clean_vars, registry_vars, writer_vars, batch_vars,
                   read_vars, gui_vars>>

\* lines 21, 27-29: the writer lookup by the lowercased output suffix.
ConvertGetWriter(t) ==
    /\ epc[t] = "get_writer"
    /\ LET out_ext == Lower(output_path[t].suffix)
           cls == get_writer(out_ext)
       IN  /\ WriterCls' = [WriterCls EXCEPT ![t] = cls]
           /\ _writers' = AfterGet(_writers, Lower(out_ext))
           /\ IF cls = None
                THEN /\ raised' = [raised EXCEPT ![t] =
                                      Error("UnsupportedExtensionError",
                                            "No writer found for extension",
                                            out_ext, "none", "")]
                     /\ epc' = [epc EXCEPT ![t] = "raised"]
                ELSE /\ epc' = [epc EXCEPT ![t] = "read"]
                     /\ UNCHANGED raised
    /\ UNCHANGED <<_readers, input_path, output_path, write_options,
                   ReaderCls, doc_model, dirs, files, dirs0, files0, io_log,
                   plugin_error, calls>>
    /\ UNCHANGED <<chunk_vars, clean_vars, registry_vars, writer_vars, batch_vars,
                   read_vars, gui_vars>>

\* lines 31-33 and 37-38: the reader is constructed and reads the input file;
\* an exception is re-raised as ConversionFailedError.
ConvertRead(t) ==
    /\ epc[t] = "read"
    /\ io_log' = [io_log EXCEPT ![t] = @ \o <<"construct_reader", "open_input">>]
    /\ \E r \in ReadOutcomes(ReaderCls[t]) :
         /\ plugin_error' = [plugin_error EXCEPT ![t] = r.err]
         /\ IF r.ok
              THEN /\ doc_model' = [doc_model EXCEPT ![t] = r.blocks]
                   /\ epc' = [epc EXCEPT ![t] = "write"]
                   /\ UNCHANGED raised
              ELSE /\ raised' = [raised EXCEPT ![t] = ConversionFailedError(r.err)]
                   /\ epc' = [epc EXCEPT ![t] = "raised"]
                   /\ UNCHANGED doc_model
    /\ dirs' = DirsAfterRead(dirs, output_path[t])
    /\ UNCHANGED <<_readers, _writers, input_path, output_path, write_options,
                   ReaderCls, WriterCls, files, dirs0, files0, calls>>
    /\ UNCHANGED <<chunk_vars, clean_vars, registry_vars, writer_vars, batch_vars,
                   read_vars, gui_vars>>

\* lines 35-38 with TxtWriter.write lines 56-78: the writer is constructed,
\* creates the parent directory and writes the targets in order. The file
\* system may fail the mkdir (k = 0) or the write of target k; the targets
\* before k are then written and target k is untouched or left truncated.
ConvertWrite(t) ==
    /\ epc[t] = "write"
    /\ LET targets == WriteTargets(output_path[t], write_options[t],
                                   Render(doc_model[t]))
       IN  \E k \in 0..(Len(targets) + 1), trunc \in BOOLEAN :
             /\ io_log' = [io_log EXCEPT ![t] =
                              @ \o <<"construct_writer", "mkdir">>
                                \o [i \in 1..Min(k, Len(targets)) |-> "write_text"]]
             /\ dirs' = IF k = 0 THEN dirs ELSE dirs \cup {output_path[t].dir}
             /\ files' = IF k = 0 THEN files
                         ELSE AfterWrites(files, targets, k - 1, trunc)
             /\ IF k = Len(targets) + 1
                  THEN /\ trunc = FALSE
                       /\ epc' = [epc EXCEPT ![t] = "returned"]
                       /\ UNCHANGED <<raised, plugin_error>>
                  ELSE /\ plugin_error' = [plugin_error EXCEPT ![t] = WriteError]
                       /\ raised' = [raised EXCEPT ![t] =
                                        ConversionFailedError(WriteError)]
                       /\ epc' = [epc EXCEPT ![t] = "raised"]
    /\ UNCHANGED <<_readers, _writers, input_path, output_path, write_options,
                   ReaderCls, WriterCls, doc_model, dirs0, files0, calls>>
    /\ UNCHANGED <<chunk_vars, clean_vars, registry_vars, writer_vars, batch_vars,
                   read_vars, gui_vars>>

\* The caller of the sequential runs.
MainCaller == "t1"

NextEngine ==
    \E t \in {MainCaller} :
        ConvertCall(t) \/ ConvertGetReader(t) \/ ConvertGetWriter(t)
            \/ ConvertRead(t) \/ ConvertWrite(t)

SpecEngine == InitEngine /\ [][NextEngine]_vars

\* The arguments of the concurrent calls: a PDF or an unsupported input, the
\* same upper-case .TXT output or an unsupported one, chunked or not.
ConcurrentInputPaths == {p \in InputPaths : p.suffix \in {DotPdf, DotInvalid}}
ConcurrentOutputPaths == {p \in OutputPaths : p.suffix \in {DotTXT, DotInvalid}}
ConcurrentOptions == {wo \in WriteOptions : wo.chunk_size > 0}

ConvertCallOnce(t) ==
    /\ epc[t] = "idle"
    /\ \E ip \in ConcurrentInputPaths, op \in ConcurrentOutputPaths,
          wo \in ConcurrentOptions :
         Invoke(t, ip, op, wo)
    /\ UNCHANGED <<chunk_vars, clean_vars, registry_vars, writer_vars, batch_vars,
                   read_vars, gui_vars>>

\* Two threads call convert once each, at the same time: their steps
\* interleave in every order, one call after the other included.
NextConcurrent ==
    \E t \in Callers :
        ConvertCallOnce(t) \/ ConvertGetReader(t) \/ ConvertGetWriter(t)
            \/ ConvertRead(t) \/ ConvertWrite(t)

SpecConcurrent == InitEngine /\ [][NextConcurrent]_vars

\* The loop of SpecChunk and the function chunk_text used by write compute
\* the same list.
ChunkFormsAgree ==
    (cpc = "return") => (chunks = chunk_text(text, chunk_size, overlap_arg))

-----------------------------------------------------------------------------
(* Properties of CoreEngine.convert *)

\* No plugin is registered for the input suffix / the output suffix.
NoReaderFor(p) == \A e \in DOMAIN _readers : Lower(p.suffix) # e
NoWriterFor(p) == \A e \in DOMAIN _writers : Lower(p.suffix) # e

\* C10: a convert call whose input or output extension has no registered
\* plugin ends by raising UnsupportedExtensionError, and does no I/O on the
\* way: no reader or writer is constructed, the input is not opened, no
\* directory or output file is created or modified.
C10_UnsupportedBeforeIO ==
    \A t \in Callers :
      (epc[t] # "idle" /\ (NoReaderFor(input_path[t]) \/ NoWriterFor(output_path[t])))
        => /\ io_log[t] = <<>>
           /\ dirs = dirs0[t]
           /\ files = files0[t]
           /\ epc[t] \in {"get_reader", "get_writer", "raised"}
           /\ epc[t] = "raised"
                => /\ raised[t].kind = "UnsupportedExtensionError"
                   /\ raised[t].ext = IF NoReaderFor(input_path[t])
                                        THEN Lower(input_path[t].suffix)
                                        ELSE Lower(output_path[t].suffix)

C10_Witness ==
    /\ epc[MainCaller] = "raised"
    /\ raised[MainCaller].kind = "UnsupportedExtensionError"
    /\ input_path[MainCaller].suffix = DotDOCX
    /\ ReaderCls[MainCaller] = "DocxReader"
    /\ output_path[MainCaller].suffix = DotInvalid
    /\ calls[MainCaller] = 2
    /\ files0[MainCaller] # <<>>

\* C11: once both plugins are resolved, an error the reader or the writer
\* raises reaches the caller as a ConversionFailedError whose message is
\* "Conversion failed: " followed by the message of that error; convert raises
\* nothing else after the lookups, and never returns normally after a plugin
\* error.
C11_WrapsPluginErrors ==
    \A t \in Callers :
      /\ plugin_error[t] # NoError
           => /\ epc[t] = "raised"
              /\ raised[t].kind = "ConversionFailedError"
              /\ raised[t].msg = "Conversion failed: "
              /\ raised[t].cause_msg = plugin_error[t].msg
              /\ raised[t].cause_msg # ""
              /\ raised[t].cause_kind = plugin_error[t].kind
      /\ (epc[t] = "raised" /\ ReaderCls[t] # None /\ WriterCls[t] # None)
           => /\ raised[t].kind = "ConversionFailedError"
              /\ plugin_error[t] # NoError

\* A PDF that cannot be opened, on the second call of the caller.
C11_Witness ==
    /\ epc[MainCaller] = "raised"
    /\ ReaderCls[MainCaller] = "PdfReader"
    /\ WriterCls[MainCaller] = "TxtWriter"
    /\ plugin_error[MainCaller].kind = "RuntimeError"
    /\ raised[MainCaller].cause_msg = "Cannot open PDF. OCR is not supported."
    /\ calls[MainCaller] = 2

\* C14: convert never changes the registry: whatever the calls, their order,
\* their outcome and the interleaving of their steps, the reader and writer
\* mappings are those populated at startup.
C14_RegistryUnchanged ==
    /\ _readers = StartupReaders
    /\ _writers = StartupWriters

\* Both callers are past their lookups, one failed in its writer after the
\* other's call had started, and the other is still running.
C14_Witness ==
    /\ epc["t1"] = "write"
    /\ epc["t2"] = "raised"
    /\ plugin_error["t2"] = WriteError
    /\ files # files0["t1"]
    /\ input_path["t1"].suffix = DotPdf
    /\ output_path["t2"].suffix = DotTXT

\* The constructions and I/O of a call that got as far as k write_text calls.
LogOfWrites(k) ==
    <<"construct_reader", "open_input", "construct_writer", "mkdir">>
      \o [i \in 1..k |-> "write_text"]

ReadLog == <<"construct_reader", "open_input">>

C25_State ==
    \A t \in Callers :
      /\ \/ io_log[t] \in {<<>>, ReadLog}
         \/ \E k \in 0..Len(io_log[t]) : io_log[t] = LogOfWrites(k)
      /\ io_log[t] # <<>> => (ReaderCls[t] # None /\ WriterCls[t] # None)
      /\ WriterCls[t] # None => ReaderCls[t] # None
      /\ (epc[t] = "raised" /\ NoReaderFor(input_path[t])
            /\ NoWriterFor(output_path[t]))
           => /\ raised[t].kind = "UnsupportedExtensionError"
              /\ raised[t].msg = "No reader found for extension"
              /\ raised[t].ext = Lower(input_path[t].suffix)
              /\ WriterCls[t] = None
      /\ (epc[t] = "raised" /\ io_log[t] = ReadLog)
           => /\ plugin_error[t] \in ReadErrors(ReaderCls[t])
              /\ dirs = dirs0[t]
              /\ files = files0[t]
      /\ (ReaderCls[t] # None /\ plugin_error[t] \in ReadErrors(ReaderCls[t]))
           => (epc[t] = "raised" /\ io_log[t] = ReadLog)
      /\ epc[t] \in {"get_reader", "get_writer", "read"}
           => (dirs = dirs0[t] /\ files = files0[t])

C25_Step ==
    \A t \in Callers :
      epc'[t] # epc[t]
        => \/ epc'[t] = "get_reader"
           \/ epc[t] = "get_reader" /\ epc'[t] \in {"get_writer", "raised"}
           \/ epc[t] = "get_writer" /\ epc'[t] \in {"read", "raised"}
           \/ epc[t] = "read" /\ epc'[t] \in {"write", "raised"}
           \/ epc[t] = "write" /\ epc'[t] \in {"returned", "raised"}

\* C25: convert takes its steps in one order: the reader lookup, the writer
\* lookup (with both extensions unregistered the error names the reader and
\* the input extension), the read, the write. Nothing is constructed or
\* touched before both lookups succeeded; when read raises, the writer is
\* not constructed, no mkdir and no write_text is made, and the directories
\* and files are those of the start of the call.
C25_StepOrder == [](C25_State) /\ [][C25_Step]_vars

\* The second call of the caller read a PDF that refused text extraction,
\* with the output directory missing or an older output file in place.
C25_Witness ==
    /\ epc[MainCaller] = "raised"
    /\ calls[MainCaller] = 2
    /\ io_log[MainCaller] = ReadLog
    /\ plugin_error[MainCaller].kind = "PDFTextExtractionNotAllowed"
    /\ WriterCls[MainCaller] = "TxtWriter"
    /\ write_options[MainCaller].enable_chunk
    /\ files # <<>>

\* C27: a chunked write that produces k chunks creates or overwrites exactly
\* the part files 1..k, each with its chunk, and leaves every other file as
\* it was: output_path itself is not written, and a part file of a higher
\* index left by an earlier conversion to the same path is neither deleted
\* nor changed, so after a second conversion with fewer chunks the directory
\* holds part files of both runs.
C27_ChunkedWriteFrame ==
    \A t \in Callers :
      (epc[t] = "returned" /\ write_options[t].enable_chunk)
        => LET targets == WriteTargets(output_path[t], write_options[t],
                                       Render(doc_model[t]))
               parts == {targets[i].file : i \in 1..Len(targets)}
               out_file == File(output_path[t].dir,
                                output_path[t].stem \o output_path[t].suffix)
           IN  /\ DOMAIN files = (DOMAIN files0[t]) \cup parts
               /\ \A i \in 1..Len(targets) :
                     files[targets[i].file] = targets[i].content
               /\ \A f \in (DOMAIN files0[t]) \ parts : files[f] = files0[t][f]
               /\ out_file \notin parts
               /\ Cardinality(parts) = Len(targets)

\* The first conversion to out/o.txt gave two parts, the second one part:
\* part 2 of the first run is still there, next to part 1 of the second.
C27_Witness ==
    /\ epc[MainCaller] = "returned"
    /\ calls[MainCaller] = 2
    /\ write_options[MainCaller].enable_chunk
    /\ doc_model[MainCaller] = <<>>
    /\ LET part1 == File("out", <<"o", "_", "p", "a", "r", "t", "0", "0", "1">> \o DotTxt)
           part2 == File("out", <<"o", "_", "p", "a", "r", "t", "0", "0", "2">> \o DotTxt)
       IN  /\ part1 \in DOMAIN files /\ part2 \in DOMAIN files
           /\ files[part1] = <<LF>>
           /\ files[part2] = <<"c", LF>>
           /\ files0[MainCaller][part1] = <<"a", "b", "c">>

-----------------------------------------------------------------------------
(* PluginRegistry called directly: registrations, lookups and listings *)

MaxRegistrations == 3

ReaderClasses == {"DocxReader", "PdfReader", "AltReader"}
WriterClasses == {"TxtWriter", "AltWriter"}

\* The extensions looked up: registered ones in several spellings, an
\* unregistered one and the empty string.
DotDocX == <<".", "d", "o", "c", "X">>
DotPDF == <<".", "P", "D", "F">>
LookupExts ==
    {DotDocx, DotDOCX, DotDocX, DotPdf, DotPDF, DotTxt, DotTXT, DotInvalid, <<>>}

\* ord(c) of the characters of the extensions.
Ord(c) ==
    CASE c = "." -> 46
      [] c = "C" -> 67 [] c = "D" -> 68 [] c = "F" -> 70 [] c = "O" -> 79
      [] c = "P" -> 80 [] c = "T" -> 84 [] c = "X" -> 88
      [] c = "a" -> 97 [] c = "c" -> 99 [] c = "d" -> 100 [] c = "f" -> 102
      [] c = "i" -> 105 [] c = "l" -> 108 [] c = "n" -> 110 [] c = "o" -> 111
      [] c = "p" -> 112 [] c = "t" -> 116 [] c = "v" -> 118 [] c = "x" -> 120

\* a < b for two str: at the first position where they differ the code point
\* of a is the smaller one, or a is a proper prefix of b.
StrLess(a, b) ==
    \E k \in 1..(Min(Len(a), Len(b)) + 1) :
        /\ \A j \in 1..(k - 1) : a[j] = b[j]
        /\ IF k > Len(a) THEN k <= Len(b)
           ELSE k <= Len(b) /\ Ord(a[k]) < Ord(b[k])

\* sorted(keys): the keys as a list in ascending order.
RECURSIVE Sorted(_)
Sorted(keys) ==
    IF keys = {} THEN <<>>
    ELSE LET least == CHOOSE x \in keys :
                         \A y \in keys : x = y \/ StrLess(x, y)
         IN  <<least>> \o Sorted(keys \ {least})

\* registry.py:53-55 and 57-59
available_inputs == Sorted(DOMAIN _readers)
available_outputs == Sorted(DOMAIN _writers)

\* The class attributes `_readers = {}` and `_writers = {}` (registry.py:32-33)
\* before any plugin module is imported.
InitRegistry ==
    /\ _readers = EmptyDict
    /\ _writers = EmptyDict
    /\ NoCalls
    /\ dirs = {}
    /\ files = <<>>
    /\ dirs0 = [t \in Callers |-> {}]
    /\ files0 = [t \in Callers |-> <<>>]
    /\ IdleRegistry
    /\ IdleRead
    /\ IdleWriter
    /\ IdleBatch
    /\ IdleChunk
    /\ IdleClean
    /\ IdleGui

RegistryFrame ==
    UNCHANGED <<input_path, output_path, write_options, ReaderCls, WriterCls,
                doc_model, raised, epc, dirs, files, dirs0, files0, io_log,
                plugin_error, calls, chunk_vars, clean_vars, writer_vars, batch_vars,
                read_vars, gui_vars>>

\* registry.py:35-38
RegisterReader ==
    /\ Len(reg_log) < MaxRegistrations
    /\ \E c \in ReaderClasses :
         /\ _readers' = Register(_readers, c)
         /\ reg_log' = Append(reg_log, [kind |-> "reader", cls |-> c])
    /\ reg_call' = RegistryCall("register_reader", <<>>, None)
    /\ UNCHANGED _writers
    /\ RegistryFrame

\* registry.py:40-43
RegisterWriter ==
    /\ Len(reg_log) < MaxRegistrations
    /\ \E c \in WriterClasses :
         /\ _writers' = Register(_writers, c)
         /\ reg_log' = Append(reg_log, [kind |-> "writer", cls |-> c])
    /\ reg_call' = RegistryCall("register_writer", <<>>, None)
    /\ UNCHANGED _readers
    /\ RegistryFrame

\* registry.py:45-47
GetReader ==
    /\ \E e \in LookupExts :
         /\ reg_call' = RegistryCall("get_reader", e, get_reader(e))
         /\ _readers' = AfterGet(_readers, Lower(e))
    /\ UNCHANGED <<_writers, reg_log>>
    /\ RegistryFrame

\* registry.py:49-51
GetWriter ==
    /\ \E e \in LookupExts :
         /\ reg_call' = RegistryCall("get_writer", e, get_writer(e))
         /\ _writers' = AfterGet(_writers, Lower(e))
    /\ UNCHANGED <<_readers, reg_log>>
    /\ RegistryFrame

\* registry.py:53-55
AvailableInputs ==
    /\ reg_call' = RegistryCall("available_inputs", <<>>, available_inputs)
    /\ UNCHANGED <<_readers, _writers, reg_log>>
    /\ RegistryFrame

\* registry.py:57-59
AvailableOutputs ==
    /\ reg_call' = RegistryCall("available_outputs", <<>>, available_outputs)
    /\ UNCHANGED <<_readers, _writers, reg_log>>
    /\ RegistryFrame

NextRegistry ==
    RegisterReader \/ RegisterWriter \/ GetReader \/ GetWriter
        \/ AvailableInputs \/ AvailableOutputs

SpecRegistry == InitRegistry /\ [][NextRegistry]_vars

-----------------------------------------------------------------------------
(* Properties of PluginRegistry *)

\* The letters of the extensions, lower case and upper case.
CasePairs ==
    {<<"c", "C">>, <<"d", "D">>, <<"f", "F">>, <<"o", "O">>, <<"p", "P">>,
     <<"t", "T">>, <<"x", "X">>}

SameLetter(c, d) == c = d \/ <<c, d>> \in CasePairs \/ <<d, c>> \in CasePairs

\* a and b are the same extension up to the case of their letters.
CaseVariant(a, b) ==
    /\ Len(a) = Len(b)
    /\ \A i \in 1..Len(a) : SameLetter(a[i], b[i])

IsLowerCase(a) == \A i \in 1..Len(a) : \A pr \in CasePairs : a[i] # pr[2]

\* C12: get_reader and get_writer are total and case-insensitive: for every
\* extension string, the lookup of the string and of each of its case
\* variants gives the same result, which is the class registered under that
\* extension or None when there is none.
C12_LookupCaseInsensitive ==
    /\ \A e \in LookupExts, v \in LookupExts :
         CaseVariant(e, v) => /\ get_reader(e) = get_reader(v)
                              /\ get_writer(e) = get_writer(v)
    /\ \A e \in LookupExts :
         /\ IF \E k \in DOMAIN _readers : CaseVariant(k, e)
              THEN \E k \in DOMAIN _readers :
                     CaseVariant(k, e) /\ get_reader(e) = _readers[k]
              ELSE get_reader(e) = None
         /\ IF \E k \in DOMAIN _writers : CaseVariant(k, e)
              THEN \E k \in DOMAIN _writers :
                     CaseVariant(k, e) /\ get_writer(e) = _writers[k]
              ELSE get_writer(e) = None
    /\ \A v \in LookupExts :
         CaseVariant(reg_call.ext, v)
           => /\ reg_call.fn = "get_reader" => get_reader(v) = reg_call.result
              /\ reg_call.fn = "get_writer" => get_writer(v) = reg_call.result

\* get_reader(".DOCX") found DocxReader, registered under ".docx", while
\* ".invalid" has no reader.
C12_Witness ==
    /\ reg_call = RegistryCall("get_reader", DotDOCX, "DocxReader")
    /\ get_reader(DotDocX) = "DocxReader"
    /\ get_reader(DotInvalid) = None
    /\ get_writer(DotTXT) = "TxtWriter"

\* Class cls declares extension e, in some case.
Declares(cls, e) ==
    \E i \in 1..Len(get_supported_extensions(cls)) :
        CaseVariant(get_supported_extensions(cls)[i], e)

\* The class of the most recent registration of the kind that declared e.
LastDeclaring(kind, e) ==
    LET idx == {i \in 1..Len(reg_log) :
                   reg_log[i].kind = kind /\ Declares(reg_log[i].cls, e)}
    IN  IF idx = {} THEN None
        ELSE reg_log[CHOOSE i \in idx : \A j \in idx : j <= i].cls

\* The lowercased extensions registered so far for the kind.
RegisteredExts(kind) ==
    {e \in LookupExts : IsLowerCase(e) /\ LastDeclaring(kind, e) # None}

\* The list holds exactly the strings of the set, in ascending order, once each.
SortedListOf(list, set) ==
    /\ {list[i] : i \in 1..Len(list)} = set
    /\ \A i \in 1..(Len(list) - 1) : StrLess(list[i], list[i + 1])

\* The registry maps every extension cls declares to cls.
HoldsAll(registry, cls) ==
    \A i \in 1..Len(get_supported_extensions(cls)) :
        \E k \in DOMAIN registry :
            /\ CaseVariant(k, get_supported_extensions(cls)[i])
            /\ registry[k] = cls

C13_State ==
    /\ \A e \in LookupExts :
         /\ get_reader(e) = LastDeclaring("reader", e)
         /\ get_writer(e) = LastDeclaring("writer", e)
    /\ SortedListOf(available_inputs, RegisteredExts("reader"))
    /\ SortedListOf(available_outputs, RegisteredExts("writer"))
    /\ reg_call.fn = "available_inputs"
         => SortedListOf(reg_call.result, RegisteredExts("reader"))
    /\ reg_call.fn = "available_outputs"
         => SortedListOf(reg_call.result, RegisteredExts("writer"))
    /\ reg_call.fn = "get_reader"
         => reg_call.result = LastDeclaring("reader", reg_call.ext)
    /\ reg_call.fn = "get_writer"
         => reg_call.result = LastDeclaring("writer", reg_call.ext)

C13_Step ==
    /\ DOMAIN _readers \subseteq DOMAIN _readers'
    /\ DOMAIN _writers \subseteq DOMAIN _writers'
    /\ \A c \in ReaderClasses :
         (reg_log' = Append(reg_log, [kind |-> "reader", cls |-> c])
            /\ HoldsAll(_readers, c))
           => (_readers' = _readers /\ _writers' = _writers)
    /\ \A c \in WriterClasses :
         (reg_log' = Append(reg_log, [kind |-> "writer", cls |-> c])
            /\ HoldsAll(_writers, c))
           => (_readers' = _readers /\ _writers' = _writers)

\* C13: after any sequence of registrations a lookup returns the class of the
\* most recent registration that declared the extension in some case;
\* registering a class that the registry already holds for all its extensions
\* leaves the registry unchanged; no registration removes an extension; and
\* available_inputs / available_outputs list exactly the lowercased extensions
\* registered so far, ascending and without duplicates.
C13_LastRegistrationWins == [](C13_State) /\ [][C13_Step]_vars

\* AltReader took ".docx" over from DocxReader and was registered again; the
\* listing made afterwards shows ".docx" once, before ".txt".
C13_Witness ==
    /\ Len(reg_log) = 3
    /\ reg_log[1] = [kind |-> "reader", cls |-> "DocxReader"]
    /\ reg_log[2] = [kind |-> "reader", cls |-> "AltReader"]
    /\ reg_log[3] = [kind |-> "reader", cls |-> "AltReader"]
    /\ reg_call = RegistryCall("available_inputs", <<>>, <<DotDocx, DotTxt>>)
    /\ get_reader(DotDOCX) = "AltReader"

-----------------------------------------------------------------------------
(* i18n (i18n.py) and TxtWriter.write (txt_writer.py:30-98) block by block *)

MaxBlocks == 2
MaxRows == 2
MaxCols == 2

Locales == {"en-US", "zh-TW"}

\* i18n.strings: the marker strings of the two locales. A character outside
\* ASCII is written as its code point.
strings ==
    [l \in Locales |->
       IF l = "en-US"
       THEN [header_marker |-> <<"[", "H", "E", "A", "D", "E", "R", "]">>,
             footer_marker |-> <<"[", "F", "O", "O", "T", "E", "R", "]">>,
             table_marker |-> <<"[", "T", "A", "B", "L", "E", "]">>]
       ELSE [header_marker |-> <<"[", "U+9801", "U+9996", "]">>,
             footer_marker |-> <<"[", "U+9801", "U+5C3E", "]">>,
             table_marker |-> <<"[", "U+8868", "U+683C", "]">>]]

\* The key itself as a str, for the last fallback of t.
KeyText(key) ==
    CASE key = "header_marker" ->
           <<"h","e","a","d","e","r","_","m","a","r","k","e","r">>
      [] key = "footer_marker" ->
           <<"f","o","o","t","e","r","_","m","a","r","k","e","r">>
      [] key = "table_marker" ->
           <<"t","a","b","l","e","_","m","a","r","k","e","r">>

\* i18n.t(key) when i18n.locale is loc (i18n.py:38-44).
i18n_t(loc, key) ==
    IF loc \in DOMAIN strings /\ key \in DOMAIN strings[loc]
    THEN strings[loc][key]
    ELSE IF "en-US" \in DOMAIN strings /\ key \in DOMAIN strings["en-US"]
    THEN strings["en-US"][key]
    ELSE KeyText(key)

\* models.py:9-20
HeaderBlock(txt) == [text |-> txt, is_header |-> TRUE, is_footer |-> FALSE]
FooterBlock(txt) == [text |-> txt, is_header |-> FALSE, is_footer |-> TRUE]
TableBlock(rows) == [rows |-> rows, is_header |-> FALSE, is_footer |-> FALSE]

\* isinstance(block, ParagraphBlock)
IsParagraph(block) == "text" \in DOMAIN block

\* sep.join(parts)
RECURSIVE Join(_, _)
Join(sep, parts) ==
    IF parts = <<>> THEN <<>>
    ELSE IF Len(parts) = 1 THEN parts[1]
    ELSE parts[1] \o sep \o Join(sep, Tail(parts))

\* c.replace("\n", "\\n"): a line feed becomes a backslash and the letter n.
RECURSIVE EscapeLF(_)
EscapeLF(c) ==
    IF c = <<>> THEN <<>>
    ELSE (IF c[1] = LF THEN <<"\\", "n">> ELSE <<c[1]>>) \o EscapeLF(Tail(c))

\* txt_writer.py:81-84
TargetCols(rows, normalize) ==
    IF normalize /\ rows # <<>>
    THEN CHOOSE m \in {Len(rows[r]) : r \in 1..Len(rows)} :
            \A r \in 1..Len(rows) : Len(rows[r]) <= m
    ELSE 0

\* lines 88-90: `cells += [""] * (target_cols - len(cells))`
PadRowFront(cells, target_cols, normalize) ==
    IF normalize /\ target_cols > 0 /\ Len(cells) < target_cols
    THEN [k \in 1..(target_cols - Len(cells)) |-> <<>>] \o cells
    ELSE cells
PadRow(cells, target_cols, normalize) ==
    IF normalize /\ target_cols > 0 /\ Len(cells) < target_cols
    THEN cells \o [k \in 1..(target_cols - Len(cells)) |-> <<>>]
    ELSE cells

\* line 94: `"\t".join(safe_cells).rstrip()`
TsvLineNoRstrip(safe_cells) == Join(<<TAB>>, safe_cells)
TsvLine(safe_cells) == Rstrip(Join(<<TAB>>, safe_cells))

\* line 96: `"| " + " | ".join(safe_cells) + " |"`
PipeLine(safe_cells) ==
    <<"|", " ">> \o Join(<<" ", "|", " ">>, safe_cells) \o <<" ", "|">>

\* txt_writer.py:80-98
_format_table(rows, fmt, normalize) ==
    [r \in 1..Len(rows) |->
        LET cells == PadRow(rows[r], TargetCols(rows, normalize), normalize)
            safe_cells == [k \in 1..Len(cells) |-> EscapeLF(cells[k])]
        IN  IF fmt = "tsv" THEN TsvLine(safe_cells) ELSE PipeLine(safe_cells)]

\* lines 43-54: the lines one block appends to out_lines when i18n.locale is
\* loc at that moment.
BlockLines(block, options, loc) ==
    IF IsParagraph(block)
    THEN IF block.is_header
           THEN <<i18n_t(loc, "header_marker") \o <<SP>> \o block.text>>
         ELSE IF block.is_footer
           THEN <<i18n_t(loc, "footer_marker") \o <<SP>> \o block.text>>
         ELSE <<block.text>>
    ELSE IF options.include_tables
           THEN <<i18n_t(loc, "table_marker")>>
                  \o _format_table(block.rows, options.table_format,
                                   options.normalize_tables)
                  \o << <<>> >>
         ELSE <<>>

\* line 56: `"\n".join(out_lines).rstrip() + "\n"`
AssembleTextNoNewline(lines) == Rstrip(JoinLF(lines))
AssembleText(lines) == Rstrip(JoinLF(lines)) \o <<LF>>

\* The text write assembles when i18n.locale stays loc during the call.
RECURSIVE AllLines(_, _, _)
AllLines(blocks, options, loc) ==
    IF blocks = <<>> THEN <<>>
    ELSE BlockLines(blocks[1], options, loc)
           \o AllLines(Tail(blocks), options, loc)

RenderAll(blocks, options, loc) == AssembleText(AllLines(blocks, options, loc))

\* The table of the tsv scenario: rows [["A1", "B1"], ["A2"]].
ScenarioRows == << << <<"A", "1">>, <<"B", "1">> >>, << <<"A", "2">> >> >>

\* The blocks of the models written: body paragraphs (empty, of one space,
\* ending in a space), marked paragraphs, the scenario table and a table with
\* a line feed in a cell, a cell of one space and an empty row.
WriterBlocks ==
    {ParagraphBlock(<<>>), ParagraphBlock(<<"a">>), ParagraphBlock(<<"b", SP>>),
     HeaderBlock(<<"S">>), FooterBlock(<<"S">>),
     TableBlock(ScenarioRows),
     TableBlock(<< << <<"x", LF, "y">>, <<SP>> >>, <<>> >>)}

WriterModels == SeqsUpTo(WriterBlocks, MaxBlocks)

\* Every table of at most MaxRows rows of at most MaxCols cells, a cell being
\* empty or "c".
TableCells == {<<>>, <<"c">>}
Tables == SeqsUpTo(SeqsUpTo(TableCells, MaxCols), MaxRows)

\* The option maps: the table options in every combination, no chunking (the
\* chunk branch is exercised by convert and by chunk_text).
WriterOptions ==
    [include_tables : BOOLEAN, table_format : {"tsv", "pipe"},
     normalize_tables : BOOLEAN, enable_chunk : {FALSE},
     chunk_size : {0}, overlap : {0}]

\* write(model, output_path, options) is called; lines 31-40 have run.
WriteCalled(models, option_maps, locs) ==
    /\ locale \in locs
    /\ locale0 = locale
    /\ w_model \in models
    /\ w_path = Path("out", <<"o">>, DotTxt)
    /\ w_options \in option_maps
    /\ out_lines = <<>>
    /\ table_lines = <<>>
    /\ w_i = 1
    /\ w_text = <<>>
    /\ wpc = "blocks"
    /\ IdleEngine
    /\ IdleRegistry
    /\ IdleRead
    /\ IdleBatch
    /\ IdleChunk
    /\ IdleClean
    /\ IdleGui

InitWriter == WriteCalled(WriterModels, WriterOptions, Locales)

\* One table, tables included.
InitTable ==
    WriteCalled({<<TableBlock(rows)>> : rows \in Tables},
                {o \in WriterOptions : o.include_tables}, {"en-US"})

CallFrame ==
    UNCHANGED <<_readers, _writers, input_path, output_path, write_options,
                ReaderCls, WriterCls, doc_model, raised, epc, dirs0, files0,
                io_log, plugin_error, calls>>

\* lines 42-54: one iteration of `for block in model.blocks`; the markers are
\* read from the i18n singleton as the block is rendered.
WriteBlock ==
    /\ wpc = "blocks"
    /\ w_i <= Len(w_model)
    /\ out_lines' = out_lines \o BlockLines(w_model[w_i], w_options, locale)
    /\ table_lines' =
         IF ~IsParagraph(w_model[w_i]) /\ w_options.include_tables
         THEN _format_table(w_model[w_i].rows, w_options.table_format,
                            w_options.normalize_tables)
         ELSE table_lines
    /\ w_i' = w_i + 1
    /\ UNCHANGED <<locale, locale0, w_model, w_path, w_options, w_text, wpc>>
    /\ UNCHANGED <<dirs, files>>
    /\ CallFrame
    /\ UNCHANGED <<chunk_vars, clean_vars, registry_vars, batch_vars,
                   read_vars, gui_vars>>

\* line 56, after the last block.
WriteJoin ==
    /\ wpc = "blocks"
    /\ w_i > Len(w_model)
    /\ w_text' = AssembleText(out_lines)
    /\ wpc' = "write"
    /\ UNCHANGED <<locale, locale0, w_model, w_path, w_options, out_lines,
                   table_lines, w_i>>
    /\ UNCHANGED <<dirs, files>>
    /\ CallFrame
    /\ UNCHANGED <<chunk_vars, clean_vars, registry_vars, batch_vars,
                   read_vars, gui_vars>>

\* lines 59-78: mkdir, then the part files or the single file; the file
\* system may fail the mkdir (k = 0) or the write of target k.
WriteFiles ==
    /\ wpc = "write"
    /\ LET targets == WriteTargets(w_path, w_options, w_text)
       IN  \E k \in 0..(Len(targets) + 1), trunc \in BOOLEAN :
             /\ dirs' = IF k = 0 THEN dirs ELSE dirs \cup {w_path.dir}
             /\ files' = IF k = 0 THEN files
                         ELSE AfterWrites(files, targets, k - 1, trunc)
             /\ IF k = Len(targets) + 1
                  THEN trunc = FALSE /\ wpc' = "done"
                  ELSE wpc' = "raised"
    /\ UNCHANGED <<locale, locale0, w_model, w_path, w_options, out_lines,
                   table_lines, w_i, w_text>>
    /\ CallFrame
    /\ UNCHANGED <<chunk_vars, clean_vars, registry_vars, batch_vars,
                   read_vars, gui_vars>>

\* main_window.py:261-265 on the GUI thread: the user picks another language
\* and _on_lang_changed calls i18n.set_locale (i18n.py:32-33), whatever the
\* worker thread is doing.
SetLocale ==
    /\ \E l \in Locales \ {locale} : locale' = l
    /\ UNCHANGED <<locale0, w_model, w_path, w_options, out_lines, table_lines,
                   w_i, w_text, wpc>>
    /\ UNCHANGED <<dirs, files>>
    /\ CallFrame
    /\ UNCHANGED <<chunk_vars, clean_vars, registry_vars, batch_vars,
                   read_vars, gui_vars>>

NextWriter == WriteBlock \/ WriteJoin \/ WriteFiles \/ SetLocale

SpecWriter == InitWriter /\ [][NextWriter]_vars

NextTable == WriteBlock \/ WriteJoin \/ WriteFiles

SpecTable == InitTable /\ [][NextTable]_vars

\* For a model of body paragraphs the text is the one convert's write step
\* uses.
WriterFormsAgree ==
    (wpc \in {"write", "done", "raised"}
       /\ \A i \in 1..Len(w_model) :
            IsParagraph(w_model[i]) /\ ~w_model[i].is_header
              /\ ~w_model[i].is_footer)
      => w_text = Render(w_model)

-----------------------------------------------------------------------------
(* Properties of TxtWriter.write *)

\* write is past line 56: `text` is assembled.
Assembled == wpc \in {"write", "done", "raised"}

\* C15: a conversion reads no shared mutable state but the registry, so the
\* text written is fixed by the model and the options when write is called:
\* a language change on another thread while write runs changes no marker,
\* and all markers of one file are in one language (here: the text is the one
\* the call renders with the language in force when it began).
C15_LocaleIsolated ==
    Assembled => w_text = RenderAll(w_model, w_options, locale0)

\* The text ends with a line feed and has nothing but white space otherwise.
OnlyWhitespace(lines) ==
    \A i \in 1..Len(lines) : \A j \in 1..Len(lines[i]) :
        lines[i][j] \in PyWhitespace

\* C17: the assembled text ends with exactly one line feed and no white-space
\* character stands before it; it is exactly "\n" when the lines rendered hold
\* no character that is not white space. The empty lines of trailing empty
\* paragraphs and the blank line after a last table are not in it.
C17_OneTrailingNewline ==
    Assembled
      => /\ w_text # <<>>
         /\ w_text[Len(w_text)] = LF
         /\ Len(w_text) > 1 => w_text[Len(w_text) - 1] \notin PyWhitespace
         /\ OnlyWhitespace(out_lines) <=> (w_text = <<LF>>)

\* The model ends with a table whose blank separator line was appended last,
\* and a paragraph precedes it.
C17_Witness ==
    /\ wpc = "done"
    /\ Len(w_model) = 2
    /\ IsParagraph(w_model[1])
    /\ ~IsParagraph(w_model[2])
    /\ out_lines # <<>>
    /\ out_lines[Len(out_lines)] = <<>>
    /\ Len(w_text) > 1

\* The block rendered last is a table and tables are included.
TableRendered ==
    /\ w_i > 1
    /\ ~IsParagraph(w_model[w_i - 1])
    /\ w_options.include_tables

\* The tsv scenario: the table [["A1", "B1"], ["A2"]] was just rendered with
\* normalize_tables = true and table_format = "tsv".
ScenarioCase ==
    /\ TableRendered
    /\ w_model[w_i - 1] = TableBlock(ScenarioRows)
    /\ w_options.normalize_tables
    /\ w_options.table_format = "tsv"

\* C18 as stated: the scenario table renders as the two lines "A1<TAB>B1" and
\* "A2<TAB>".
C18_Original ==
    ScenarioCase
      => table_lines = << <<"A", "1", TAB, "B", "1">>, <<"A", "2", TAB>> >>

\* C18 amended: the scenario table renders as the two lines "A1<TAB>B1" and
\* "A2": the tab before the padding cell is trimmed with the trailing white
\* space of the row.
C18_TsvScenario ==
    ScenarioCase
      => /\ table_lines = << <<"A", "1", TAB, "B", "1">>, <<"A", "2">> >>
         /\ SubSeq(out_lines, Len(out_lines) - 2, Len(out_lines) - 1) = table_lines

C18_Witness ==
    /\ ScenarioCase
    /\ wpc = "done"
    /\ Len(w_model) = 1
    /\ locale0 = "en-US"
    /\ locale = "en-US"

\* s.split(sep) for a non-empty sep.
RECURSIVE SplitOn(_, _)
SplitOn(s, sep) ==
    LET hits == {i \in 1..(Len(s) - Len(sep) + 1) :
                    SubSeq(s, i, i + Len(sep) - 1) = sep}
    IN  IF hits = {} THEN <<s>>
        ELSE LET i == CHOOSE h \in hits : \A g \in hits : h <= g
             IN  <<SubSeq(s, 1, i - 1)>>
                   \o SplitOn(SubSeq(s, i + Len(sep), Len(s)), sep)

\* The cells a pipe line shows between its outer bars.
ShownCells(line) == SplitOn(SubSeq(line, 3, Len(line) - 2), <<" ", "|", " ">>)

\* The length of the longest row.
Widest(rows) ==
    IF rows = <<>> THEN 0
    ELSE CHOOSE m \in {Len(rows[r]) : r \in 1..Len(rows)} :
            \A r \in 1..Len(rows) : Len(rows[r]) <= m

\* Row r with empty cells added after its cells up to the longest row.
Padded(rows, r) ==
    rows[r] \o [k \in 1..(Widest(rows) - Len(rows[r])) |-> <<>>]

\* A row of no cells shows as one empty cell: "|  |"; a line feed in a cell
\* shows as a backslash and the letter n.
ShownAs(cells) ==
    IF cells = <<>> THEN << <<>> >>
    ELSE [k \in 1..Len(cells) |-> EscapeLF(cells[k])]

\* C19: with normalize_tables = true every row is padded to the length of the
\* longest row: its cells keep their values and order and the added cells are
\* empty and come last, so in pipe format all rows show the same number of
\* cells; with normalize_tables = false every row is rendered with its own
\* cells only.
C19_Padding ==
    TableRendered
      => LET rows == w_model[w_i - 1].rows
             cells(r) == IF w_options.normalize_tables THEN Padded(rows, r)
                         ELSE rows[r]
         IN  /\ Len(table_lines) = Len(rows)
             /\ \A r \in 1..Len(rows) :
                  IF w_options.table_format = "pipe"
                  THEN /\ ShownCells(table_lines[r]) = ShownAs(cells(r))
                       /\ w_options.normalize_tables
                            => \A q \in 1..Len(rows) :
                                 Len(ShownCells(table_lines[r]))
                                   = Len(ShownCells(table_lines[q]))
                  ELSE table_lines[r]
                         = Rstrip(Join(<<TAB>>, [k \in 1..Len(cells(r)) |->
                                                   EscapeLF(cells(r)[k])]))

\* A pipe table whose second row is shorter than its first was padded.
C19_Witness ==
    /\ TableRendered
    /\ wpc = "done"
    /\ w_options.table_format = "pipe"
    /\ w_options.normalize_tables
    /\ Len(table_lines) = 2
    /\ w_model[1].rows = << <<<<>>, <<"c">>>>, <<<<"c">>>> >>
    /\ ShownCells(table_lines[2]) = << <<"c">>, <<>> >>

\* The option maps of the chunked calls: every chunk size and overlap of the
\* chunker runs, negative ones and overlaps above the chunk size included.
ChunkedOptions ==
    [include_tables : {TRUE}, table_format : {"tsv"}, normalize_tables : {TRUE},
     enable_chunk : {TRUE}, chunk_size : ChunkSizes, overlap : Overlaps]

\* The models of the chunked calls: no block, or one block.
ChunkedModels == SeqsUpTo(WriterBlocks, 1)

\* write is called with enable_chunk = True.
InitChunkedWrite == WriteCalled(ChunkedModels, ChunkedOptions, {"en-US"})

SpecChunkedWrite == InitChunkedWrite /\ [][NextTable]_vars

\* C26: with chunking enabled, for every model, chunk_size and overlap, the
\* assembled text holds at least its final line feed, so chunk_text returns
\* at least one chunk and no empty chunk: a write that completes has created
\* at least one part file and every part file it wrote is non-empty. The
\* empty list chunk_text returns for the empty text does not occur.
C26_PartsNonEmpty ==
    (Assembled /\ w_options.enable_chunk)
      => LET cks == chunk_text(w_text, w_options.chunk_size, w_options.overlap)
             targets == WriteTargets(w_path, w_options, w_text)
         IN  /\ w_text # <<>>
             /\ Len(cks) >= 1
             /\ \A i \in 1..Len(cks) : cks[i] # <<>>
             /\ Len(targets) = Len(cks)
             /\ wpc = "done"
                  => /\ DOMAIN files # {}
                     /\ \A i \in 1..Len(targets) :
                          /\ targets[i].file \in DOMAIN files
                          /\ files[targets[i].file] # <<>>
                     /\ \A f \in DOMAIN files : files[f] # <<>>

\* The model without blocks, chunk_size 1: the text is "\n" and one part file
\* holds it.
C26_Witness ==
    /\ wpc = "done"
    /\ w_options.enable_chunk
    /\ w_options.chunk_size = 1
    /\ w_model = <<>>
    /\ w_text = <<LF>>
    /\ DOMAIN files = {File("out", <<"o", "_", "p", "a", "r", "t", "0", "0", "1">> \o DotTxt)}

-----------------------------------------------------------------------------
(* The names of the part files *)

\* f"{stem}_part{idx:03d}" followed by ext.
PartName(stem, idx, ext) ==
    stem \o <<"_", "p", "a", "r", "t">> \o Format03d(idx) \o ext

\* C16: when chunking is enabled, chunk i is in the file
\* {stem}_part{NNN}{ext} of the parent directory of output_path, with the stem
\* and the extension of output_path as given (an upper-case ".TXT" too) and
\* NNN the index in three digits: after a call that returned, every chunk is
\* in the file of that name.
C16_PartFileNames ==
    \A c \in Callers :
      (epc[c] = "returned" /\ write_options[c].enable_chunk)
        => LET cks == chunk_text(Render(doc_model[c]),
                                 write_options[c].chunk_size,
                                 write_options[c].overlap)
           IN  \A i \in 1..Len(cks) :
                 LET f == File(output_path[c].dir,
                               PartName(output_path[c].stem, i,
                                        output_path[c].suffix))
                 IN  f \in DOMAIN files /\ files[f] = cks[i]

-----------------------------------------------------------------------------
(* The batch loops: convert_cmd (cli.py:11-61) and the worker thread of       *)
(* MainWindow.start_conversion (main_window.py:414-457)                       *)

MaxBatch == 2

\* The files a batch may hold: a document, a file of unsupported type, and a
\* PDF of another directory with the stem of the document.
BatchInputs ==
    {Path("in", <<"a">>, DotDocx), Path("in", <<"b">>, DotInvalid),
     Path("in2", <<"a">>, DotPdf)}

BatchFiles == SeqsUpTo(BatchInputs, MaxBatch) \ {<<>>}

\* enable_chunk; the output directory ("" for none: next to the source); the
\* output extension (--out-type, or the choice of the output type box).
BatchOptions ==
    [enable_chunk : BOOLEAN, out_dir : {"", "out"}, out_ext : {DotTxt, DotInvalid}]

\* cli.py:37-43, main_window.py:418-425: the folder of all part files.
ChunkRoot(files_, opts) ==
    (IF opts.out_dir # "" THEN opts.out_dir ELSE files_[1].dir) \o "/ALL_CHUNKS"

\* cli.py:49-55, main_window.py:431-441: the output path for file f: the stem
\* of f with the output extension, in the chosen directory.
TargetKeepSuffix(f, files_, opts) ==
    IF opts.enable_chunk
    THEN Path(ChunkRoot(files_, opts), f.stem \o f.suffix, opts.out_ext)
    ELSE IF opts.out_dir # "" THEN Path(opts.out_dir, f.stem \o f.suffix, opts.out_ext)
    ELSE Path(f.dir, f.stem \o f.suffix, opts.out_ext)
Target(f, files_, opts) ==
    IF opts.enable_chunk THEN Path(ChunkRoot(files_, opts), f.stem, opts.out_ext)
    ELSE IF opts.out_dir # "" THEN Path(opts.out_dir, f.stem, opts.out_ext)
    ELSE Path(f.dir, f.stem, opts.out_ext)

\* cli.py:24-32, main_window.py:398-406: the write options of every call.
BatchWriteOptions(opts) ==
    [enable_chunk |-> opts.enable_chunk, chunk_size |-> 3, overlap |-> 1]

\* cli.py:60-61, main_window.py:449-450: `except Exception` inside the loop
\* body: after a success and after a failure the loop goes on.
AfterFileAbortOnFailure(ok) == IF ok THEN "loop" ELSE "aborted"
AfterFile(ok) == "loop"

\* A report: cli.py:59 / 61 (stdout / stderr), main_window.py:448 / 450 (the
\* log callback handed to root.after).
Report(f, ok, err) == [file |-> f, ok |-> ok, err |-> err]

\* convert_cmd is called, or start_conversion has started the worker thread
\* with its snapshot of the file list (main_window.py:409-412).
InitBatch ==
    /\ frontend \in {"cli", "gui"}
    /\ batch_files \in BatchFiles
    /\ batch_opts \in BatchOptions
    /\ b_i = 1
    /\ bpc = "prepare"
    /\ invoked = <<>>
    /\ reports = <<>>
    /\ _readers = StartupReaders
    /\ _writers = StartupWriters
    /\ NoCalls
    /\ dirs = {"in", "in2"}
    /\ files = <<>>
    /\ dirs0 = [c \in Callers |-> dirs]
    /\ files0 = [c \in Callers |-> files]
    /\ IdleRegistry
    /\ IdleRead
    /\ IdleWriter
    /\ IdleChunk
    /\ IdleClean
    /\ IdleGui

\* cli.py:14-16 and 37-44, main_window.py:418-427: before the loop the CLI
\* creates the output directory and both create ALL_CHUNKS when chunking; a
\* failing mkdir raises outside the loop and ends the batch.
BatchPrepare ==
    /\ bpc = "prepare"
    /\ LET made == (IF frontend = "cli" /\ batch_opts.out_dir # ""
                      THEN {batch_opts.out_dir} ELSE {})
                   \cup (IF batch_opts.enable_chunk
                           THEN {ChunkRoot(batch_files, batch_opts)} ELSE {})
       IN  \E ok \in BOOLEAN :
             IF made # {} /\ ~ok
             THEN bpc' = "aborted" /\ UNCHANGED dirs
             ELSE bpc' = "loop" /\ dirs' = dirs \cup made
    /\ UNCHANGED <<frontend, batch_files, batch_opts, b_i, invoked, reports>>
    /\ UNCHANGED files
    /\ CallFrame
    /\ UNCHANGED <<chunk_vars, clean_vars, registry_vars, writer_vars,
                   read_vars, gui_vars>>

\* cli.py:46-58, main_window.py:429-443: the next file: its target is
\* computed and CoreEngine.convert is called.
BatchConvert ==
    /\ bpc = "loop"
    /\ b_i <= Len(batch_files)
    /\ Invoke(MainCaller, batch_files[b_i],
              Target(batch_files[b_i], batch_files, batch_opts),
              BatchWriteOptions(batch_opts))
    /\ invoked' = Append(invoked, batch_files[b_i])
    /\ bpc' = "converting"
    /\ UNCHANGED <<frontend, batch_files, batch_opts, b_i, reports>>
    /\ UNCHANGED <<chunk_vars, clean_vars, registry_vars, writer_vars,
                   read_vars, gui_vars>>

\* cli.py:59-61, main_window.py:448-455: convert returned or raised; the
\* success or the failure is reported and the loop moves on.
BatchReport ==
    /\ bpc = "converting"
    /\ epc[MainCaller] \in {"returned", "raised"}
    /\ reports' = Append(reports, Report(batch_files[b_i],
                                         epc[MainCaller] = "returned",
                                         raised[MainCaller].kind))
    /\ b_i' = b_i + 1
    /\ bpc' = AfterFile(epc[MainCaller] = "returned")
    /\ UNCHANGED <<frontend, batch_files, batch_opts, invoked>>
    /\ UNCHANGED engine_vars
    /\ UNCHANGED <<chunk_vars, clean_vars, registry_vars, writer_vars,
                   read_vars, gui_vars>>

\* The loop is over: convert_cmd returns; the worker hands _finish_conversion
\* to the GUI thread (main_window.py:457).
BatchEnd ==
    /\ bpc = "loop"
    /\ b_i > Len(batch_files)
    /\ bpc' = "finished"
    /\ UNCHANGED <<frontend, batch_files, batch_opts, b_i, invoked, reports>>
    /\ UNCHANGED engine_vars
    /\ UNCHANGED <<chunk_vars, clean_vars, registry_vars, writer_vars,
                   read_vars, gui_vars>>

NextBatch ==
    BatchPrepare \/ BatchConvert \/ BatchReport \/ BatchEnd
        \/ ConvertGetReader(MainCaller) \/ ConvertGetWriter(MainCaller)
        \/ ConvertRead(MainCaller) \/ ConvertWrite(MainCaller)

SpecBatch == InitBatch /\ [][NextBatch]_vars

\* C20: a failure converting one file never aborts the batch: convert is
\* called once per file in list order and every file gets exactly one report,
\* a success if its call returned and a failure if it raised; when the batch
\* has finished every file was converted and reported.
C20_BatchContinues ==
    /\ invoked = SubSeq(batch_files, 1, Len(invoked))
    /\ Len(reports) = b_i - 1 \/ bpc = "idle"
    /\ \A k \in 1..Len(reports) : reports[k].file = batch_files[k]
    /\ bpc = "loop" => Len(invoked) = Len(reports)
    /\ bpc = "converting"
         => /\ Len(invoked) = Len(reports) + 1
            /\ input_path[MainCaller] = batch_files[b_i]
    /\ bpc = "aborted" => invoked = <<>>
    /\ bpc = "finished"
         => /\ invoked = batch_files
            /\ Len(reports) = Len(batch_files)
    /\ (bpc \in {"loop", "finished"} /\ reports # <<>>)
         => (reports[Len(reports)].ok <=> epc[MainCaller] = "returned")

\* A GUI batch of an unsupported file and a document finished: the first file
\* failed, the second was converted after it.
C20_Witness ==
    /\ bpc = "finished"
    /\ frontend = "gui"
    /\ Len(batch_files) = 2
    /\ ~reports[1].ok
    /\ reports[1].err = "UnsupportedExtensionError"
    /\ reports[2].ok
    /\ files # <<>>

\* Two files of the batch go to one directory: chunking sends every file to
\* ALL_CHUNKS, an output directory takes every file, and without either the
\* files lie in one directory.
SameRoute(f, g, opts) ==
    opts.enable_chunk \/ opts.out_dir # "" \/ f.dir = g.dir

\* The files the call for batch file j writes, with the content of its model.
BatchWrites(j) ==
    WriteTargets(Target(batch_files[j], batch_files, batch_opts),
                 BatchWriteOptions(batch_opts), Render(doc_model[MainCaller]))

\* C30: the target of a batch file is built from its stem, the output
\* extension and the chosen directory only, so two files of equal stem that go
\* to one directory get the same target path; once the call for a file has been
\* reported a success, every file it wrote holds the content of that (the
\* later) input, whatever an earlier input of the same target wrote there.
C30_SameStemOverwrites ==
    /\ \A i \in 1..Len(batch_files) :
          LET tg == Target(batch_files[i], batch_files, batch_opts)
          IN  /\ tg.stem = batch_files[i].stem
              /\ tg.suffix = batch_opts.out_ext
              /\ tg.dir = (IF batch_opts.enable_chunk
                             THEN ChunkRoot(batch_files, batch_opts)
                           ELSE IF batch_opts.out_dir # "" THEN batch_opts.out_dir
                           ELSE batch_files[i].dir)
    /\ \A i \in 1..Len(batch_files), j \in 1..Len(batch_files) :
          (/\ batch_files[i].stem = batch_files[j].stem
           /\ SameRoute(batch_files[i], batch_files[j], batch_opts))
            => Target(batch_files[i], batch_files, batch_opts)
                 = Target(batch_files[j], batch_files, batch_opts)
    /\ (bpc \in {"loop", "finished"} /\ frontend \in {"cli", "gui"}
           /\ reports # <<>> /\ reports[Len(reports)].ok)
         => LET w == BatchWrites(Len(reports))
            IN  \A k \in 1..Len(w) :
                  /\ w[k].file \in DOMAIN files
                  /\ files[w[k].file] = w[k].content

\* A finished batch of the document and the PDF of equal stem, both reported
\* successful, sent to one output directory: the one output file held the
\* text of the document when the call for the PDF started and holds the
\* different text of the PDF now.
C30_Witness ==
    /\ bpc = "finished"
    /\ Len(batch_files) = 2
    /\ batch_files[1] # batch_files[2]
    /\ batch_files[1].stem = batch_files[2].stem
    /\ batch_files[1].dir # batch_files[2].dir
    /\ ~batch_opts.enable_chunk
    /\ batch_opts.out_dir = "out"
    /\ reports[1].ok /\ reports[2].ok
    /\ LET f == File("out", <<"a">> \o DotTxt)
       IN  /\ DOMAIN files = {f}
           /\ f \in DOMAIN files0[MainCaller]
           /\ files0[MainCaller][f] # files[f]
           /\ files[f] = Render(doc_model[MainCaller])

-----------------------------------------------------------------------------
(* The batch of the single-file program: DocxToTxtApp.convert_all            *)
(* (docx_to_txt_gui.py:525-597)                                              *)

\* The files of the list box: two Word documents and a PDF.
LegacyInputs ==
    {Path("in", <<"a">>, DotDocx), Path("in", <<"b">>, DotDocx),
     Path("in", <<"c">>, DotPdf)}

\* The lists add_files builds: no path twice (docx_to_txt_gui.py:485-488).
LegacyFiles ==
    {fl \in SeqsUpTo(LegacyInputs, MaxBatch) :
        \A i \in 1..Len(fl), j \in 1..Len(fl) : i # j => fl[i] # fl[j]}

\* The chunk check box, the output mode radio buttons and the folder entry.
LegacyOptions ==
    [enable_chunk : BOOLEAN, output_mode : {"same", "folder"},
     out_dir : {"", "out"}]

\* docx_to_txt_gui.py:526-531: an empty list, or a file that is not .docx,
\* ends convert_all with an error box.
LegacyRejects(fl) ==
    \/ fl = <<>>
    \/ \E i \in 1..Len(fl) : Lower(fl[i].suffix) # DotDocx

\* docx_to_txt_gui.py:543-552: `base_for_all / "ALL_CHUNKS"`
LegacyChunkRoot(fl, opts) ==
    (IF opts.output_mode = "folder" THEN opts.out_dir ELSE fl[1].dir)
        \o "/ALL_CHUNKS"

\* docx_to_txt_gui.py:572-584: the files written for one input, in order.
LegacyTargets(f, fl, opts, txt) ==
    WriteTargets(Path(IF opts.enable_chunk THEN LegacyChunkRoot(fl, opts)
                      ELSE IF opts.output_mode = "same" THEN f.dir
                      ELSE opts.out_dir,
                      f.stem, DotTxt),
                 [enable_chunk |-> opts.enable_chunk, chunk_size |-> 3,
                  overlap |-> 1],
                 txt)

\* extract_docx (docx_to_txt_gui.py:183-235): the text of the document, or
\* the error of Document(docx_path).
ExtractOutcomes ==
    {[ok |-> TRUE, text |-> Render(d), err |-> "none"] : d \in Docs}
    \cup {[ok |-> FALSE, text |-> <<>>, err |-> "PackageNotFoundError"]}

\* docx_to_txt_gui.py:556-557 and 595-597: the `try` encloses the whole `for`
\* loop, so the handler runs after the loop has been left.
LegacyAfterFailure == "aborted"

InitLegacy ==
    /\ frontend = "legacy"
    /\ batch_files \in LegacyFiles
    /\ batch_opts \in LegacyOptions
    /\ b_i = 1
    /\ bpc = "call"
    /\ invoked = <<>>
    /\ reports = <<>>
    /\ _readers = StartupReaders
    /\ _writers = StartupWriters
    /\ NoCalls
    /\ dirs \in {{"in"}, {"in", "out"}}
    /\ files = <<>>
    /\ dirs0 = [c \in Callers |-> dirs]
    /\ files0 = [c \in Callers |-> files]
    /\ IdleRegistry
    /\ IdleRead
    /\ IdleWriter
    /\ IdleChunk
    /\ IdleClean
    /\ IdleGui

\* lines 526-531: the two checks before anything is converted.
LegacyValidate ==
    /\ frontend = "legacy" /\ bpc = "call"
    /\ bpc' = IF LegacyRejects(batch_files) THEN "rejected" ELSE "prepare"
    /\ UNCHANGED <<frontend, batch_files, batch_opts, b_i, invoked, reports>>
    /\ UNCHANGED <<dirs, files>>
    /\ CallFrame
    /\ UNCHANGED <<chunk_vars, clean_vars, registry_vars, writer_vars,
                   read_vars, gui_vars>>

\* lines 541-554: with chunking, ALL_CHUNKS is created before the `try`; an
\* empty folder entry ends convert_all, a failing mkdir leaves it with the
\* exception.
LegacyPrepare ==
    /\ frontend = "legacy" /\ bpc = "prepare"
    /\ IF ~batch_opts.enable_chunk
         THEN bpc' = "loop" /\ UNCHANGED dirs
       ELSE IF batch_opts.output_mode = "folder" /\ batch_opts.out_dir = ""
         THEN bpc' = "rejected" /\ UNCHANGED dirs
       ELSE \E ok \in BOOLEAN :
              IF ok
              THEN /\ bpc' = "loop"
                   /\ dirs' = dirs \cup {LegacyChunkRoot(batch_files, batch_opts)}
              ELSE bpc' = "crashed" /\ UNCHANGED dirs
    /\ UNCHANGED <<frontend, batch_files, batch_opts, b_i, invoked, reports>>
    /\ UNCHANGED files
    /\ CallFrame
    /\ UNCHANGED <<chunk_vars, clean_vars, registry_vars, writer_vars,
                   read_vars, gui_vars>>

\* lines 557-589 and 595-597: one iteration of the loop. _resolve_output_base
\* raises when the folder entry is empty, extract_docx may raise, and a
\* write_text may fail (it does when the folder does not exist: no mkdir is
\* made for it); the files before the failing one are written.
LegacyFile ==
    /\ frontend = "legacy" /\ bpc = "loop"
    /\ b_i <= Len(batch_files)
    /\ LET f == batch_files[b_i]
           no_base == batch_opts.output_mode = "folder" /\ batch_opts.out_dir = ""
       IN  IF no_base
           THEN /\ reports' = Append(reports, Report(f, FALSE, "ValueError"))
                /\ bpc' = LegacyAfterFailure
                /\ UNCHANGED <<invoked, files>>
           ELSE /\ invoked' = Append(invoked, f)
                /\ \E x \in ExtractOutcomes :
                     IF ~x.ok
                     THEN /\ reports' = Append(reports, Report(f, FALSE, x.err))
                          /\ bpc' = LegacyAfterFailure
                          /\ UNCHANGED files
                     ELSE LET targets ==
                                LegacyTargets(f, batch_files, batch_opts, x.text)
                          IN  \E w \in 0..Len(targets), trunc \in BOOLEAN :
                                /\ targets[1].file.dir \notin dirs
                                     => (w = 0 /\ ~trunc)
                                /\ w = Len(targets) => ~trunc
                                /\ files' = AfterWrites(files, targets, w, trunc)
                                /\ IF w = Len(targets)
                                     THEN /\ reports' =
                                               Append(reports, Report(f, TRUE, "none"))
                                          /\ bpc' = "loop"
                                     ELSE /\ reports' =
                                               Append(reports, Report(f, FALSE, "OSError"))
                                          /\ bpc' = LegacyAfterFailure
    /\ b_i' = b_i + 1
    /\ UNCHANGED <<frontend, batch_files, batch_opts>>
    /\ UNCHANGED dirs
    /\ CallFrame
    /\ UNCHANGED <<chunk_vars, clean_vars, registry_vars, writer_vars,
                   read_vars, gui_vars>>

\* lines 591-593: the loop ended without an exception.
LegacyEnd ==
    /\ frontend = "legacy" /\ bpc = "loop"
    /\ b_i > Len(batch_files)
    /\ bpc' = "finished"
    /\ UNCHANGED <<frontend, batch_files, batch_opts, b_i, invoked, reports>>
    /\ UNCHANGED <<dirs, files>>
    /\ CallFrame
    /\ UNCHANGED <<chunk_vars, clean_vars, registry_vars, writer_vars,
                   read_vars, gui_vars>>

NextLegacy == LegacyValidate \/ LegacyPrepare \/ LegacyFile \/ LegacyEnd

SpecLegacy == InitLegacy /\ [][NextLegacy]_vars

\* C21: in convert_all a failure converting one file does not abort the
\* batch: when convert_all has ended after its loop began, extract_docx was
\* called for every file of the list, so every file after a failing one was
\* converted, and every file whose conversion succeeded has its output.
C21_LegacyBatchContinues ==
    (frontend = "legacy" /\ bpc \in {"finished", "aborted"}
       /\ ~(batch_opts.output_mode = "folder" /\ batch_opts.out_dir = ""))
      => /\ invoked = batch_files
         /\ Len(reports) = Len(batch_files)

-----------------------------------------------------------------------------
(* PdfReader.read (pdf_reader.py:28-82), page by page *)

MaxPages == 2

\* What page.extract_text() does: it returns a str or None, or raises.
TextResult(kind, s) == [kind |-> kind, s |-> s]

PdfTextResults ==
    {TextResult("None", <<>>), TextResult("raise", <<>>)}
    \cup {TextResult("str", s) :
            s \in {<<>>, <<SP>>, <<"a">>, <<"a", LF, LF, "b">>,
                   <<SP, "a", CR, LF, "b", TAB>>}}

\* A cell of a table pdfplumber detected: a str, or None.
PdfCellValue(is_none, s) == [none |-> is_none, s |-> s]

\* The table [[" A  1", None], [""]] as page.extract_tables() returns it.
PdfTable ==
    << << PdfCellValue(FALSE, <<SP, "A", SP, SP, "1">>), PdfCellValue(TRUE, <<>>) >>,
       << PdfCellValue(FALSE, <<>>) >> >>

\* The tables that are on a page, and whether page.extract_tables() raises.
PdfTableResults ==
    {[tables |-> <<>>, raises |-> FALSE],
     [tables |-> <<PdfTable>>, raises |-> FALSE],
     [tables |-> <<PdfTable>>, raises |-> TRUE]}

PdfPageValues ==
    {[text |-> t, tables |-> tb.tables, tables_raise |-> tb.raises] :
        t \in PdfTextResults, tb \in PdfTableResults}

\* The files: one pdfplumber cannot open, and the ones with 0..MaxPages pages.
PdfFiles ==
    {[opens |-> FALSE, pages |-> <<>>]}
    \cup {[opens |-> TRUE, pages |-> pg] : pg \in SeqsUpTo(PdfPageValues, MaxPages)}

\* lines 29-31: the three options read reads.
PdfReadOptions ==
    [include_headers : BOOLEAN, include_footers : {FALSE},
     include_tables : BOOLEAN, keep_empty_paragraphs : BOOLEAN]

\* lines 51-53: `ParagraphBlock(text=f"Page {page_num}", is_header=True)`
PageHeader(page_num) ==
    HeaderBlock(<<"P", "a", "g", "e", " ">> \o Decimal(page_num))

\* lines 56-64: the paragraphs of the text of a page.
PdfTextBlocksDropPage(res, keep) ==
    IF res.kind = "str" /\ res.s # <<>>
    THEN LET lines == FilterLines(SplitLF(pdf_clean_text(res.s)), keep)
         IN  [k \in 1..Len(lines) |-> ParagraphBlock(lines[k])]
    ELSE <<>>
PdfTextBlocks(res, keep) ==
    IF res.kind = "str" /\ res.s # <<>>
    THEN LET lines == FilterLines(SplitLF(pdf_clean_text(res.s)), keep)
         IN  [k \in 1..Len(lines) |-> ParagraphBlock(lines[k])]
    ELSE IF keep THEN <<ParagraphBlock(<<>>)>> ELSE <<>>

\* lines 68-71: `try: tables = page.extract_tables() except Exception:
\* tables = []`
ExtractedTables(page) == IF page.tables_raise THEN <<>> ELSE page.tables

\* lines 73-80: one TableBlock per table, `_clean_text(cell) if cell else ""`.
PdfTableBlocks(tables) ==
    [k \in 1..Len(tables) |->
        TableBlock([r \in 1..Len(tables[k]) |->
                      [c \in 1..Len(tables[k][r]) |->
                          IF ~tables[k][r][c].none /\ tables[k][r][c].s # <<>>
                          THEN pdf_clean_text(tables[k][r][c].s)
                          ELSE <<>>]])]

\* PdfReader().read(file_path, options) is called.
InitPdfRead ==
    /\ r_reader = "PdfReader"
    /\ r_file \in PdfFiles
    /\ r_options \in PdfReadOptions
    /\ r_blocks = <<>>
    /\ r_i = 0
    /\ rpc = "open"
    /\ IdleChunk
    /\ IdleClean
    /\ IdleGui
    /\ IdleEngine
    /\ IdleRegistry
    /\ IdleWriter
    /\ IdleBatch

ReadFrame ==
    UNCHANGED <<chunk_vars, clean_vars, engine_vars, registry_vars, writer_vars,
                batch_vars, gui_vars>>

\* lines 33-46: the file is opened; a failure is raised as RuntimeError, a
\* file without pages returns the empty model.
PdfOpen ==
    /\ r_reader = "PdfReader" /\ rpc = "open"
    /\ IF ~r_file.opens THEN rpc' = "raised" /\ UNCHANGED r_i
       ELSE IF r_file.pages = <<>> THEN rpc' = "returned" /\ UNCHANGED r_i
       ELSE rpc' = "page" /\ r_i' = 1
    /\ UNCHANGED <<r_reader, r_file, r_options, r_blocks>>
    /\ ReadFrame

\* lines 48-80: one iteration of `for page_num, page in enumerate(pdf.pages,
\* start=1)`. An exception of extract_text leaves read after the header of
\* the page was appended.
PdfReadPage ==
    /\ r_reader = "PdfReader" /\ rpc = "page"
    /\ r_i <= Len(r_file.pages)
    /\ LET page == r_file.pages[r_i]
           header == IF r_options.include_headers
                     THEN <<PageHeader(r_i)>> ELSE <<>>
       IN  IF page.text.kind = "raise"
           THEN /\ r_blocks' = r_blocks \o header
                /\ rpc' = "raised"
                /\ UNCHANGED r_i
           ELSE /\ r_blocks' =
                     r_blocks \o header
                       \o PdfTextBlocks(page.text, r_options.keep_empty_paragraphs)
                       \o (IF r_options.include_tables
                             THEN PdfTableBlocks(ExtractedTables(page))
                             ELSE <<>>)
                /\ r_i' = r_i + 1
                /\ UNCHANGED rpc
    /\ UNCHANGED <<r_reader, r_file, r_options>>
    /\ ReadFrame

\* line 82: `return model` after the last page.
PdfReturn ==
    /\ r_reader = "PdfReader" /\ rpc = "page"
    /\ r_i > Len(r_file.pages)
    /\ rpc' = "returned"
    /\ UNCHANGED <<r_reader, r_file, r_options, r_blocks, r_i>>
    /\ ReadFrame

NextPdfRead == PdfOpen \/ PdfReadPage \/ PdfReturn

SpecPdfRead == InitPdfRead /\ [][NextPdfRead]_vars

-----------------------------------------------------------------------------
(* Properties of PdfReader.read *)

\* The blocks of page n of a model that holds all the content the options
\* request: the header, the text, and the tables that are on the page.
PageContent(page, page_num, options) ==
    (IF options.include_headers THEN <<PageHeader(page_num)>> ELSE <<>>)
      \o PdfTextBlocks(page.text, options.keep_empty_paragraphs)
      \o (IF options.include_tables THEN PdfTableBlocks(page.tables) ELSE <<>>)

RECURSIVE FullContent(_, _, _)
FullContent(pages, k, options) ==
    IF k = 0 THEN <<>>
    ELSE FullContent(pages, k - 1, options) \o PageContent(pages[k], k, options)

\* C22: PdfReader.read fails atomically: whenever it returns, the model holds
\* all the content the options request, the text of every page and, with
\* include_tables, the tables of every page; when an extraction step fails it
\* raises and returns no model.
C22_ReadAtomic ==
    (r_reader = "PdfReader" /\ rpc = "returned")
      => r_blocks = FullContent(r_file.pages, Len(r_file.pages), r_options)

\* The number of pages whose iteration is over.
PagesDone ==
    IF rpc = "returned" THEN Len(r_file.pages)
    ELSE IF rpc = "page" THEN r_i - 1 ELSE 0

NonEmptyLine(line) == line # <<>>

\* The paragraphs page n must give: no paragraph, or one empty paragraph when
\* keep, for a page without text; otherwise one per line of the normalized
\* text, the empty lines only when keep.
PageParagraphs(page, page_num, options) ==
    LET keep == options.keep_empty_paragraphs
        lines == SplitLF(pdf_clean_text(page.text.s))
        kept == IF keep THEN lines ELSE SelectSeq(lines, NonEmptyLine)
        marker == [text |-> <<"P", "a", "g", "e", " ">> \o Decimal(page_num),
                   is_header |-> TRUE, is_footer |-> FALSE]
    IN  (IF options.include_headers THEN <<marker>> ELSE <<>>)
          \o (IF page.text.kind = "None" \/ page.text.s = <<>>
                THEN (IF keep THEN <<ParagraphBlock(<<>>)>> ELSE <<>>)
                ELSE [k \in 1..Len(kept) |-> ParagraphBlock(kept[k])])

RECURSIVE ParagraphsUpTo(_, _, _)
ParagraphsUpTo(pages, k, options) ==
    IF k = 0 THEN <<>>
    ELSE ParagraphsUpTo(pages, k - 1, options)
           \o PageParagraphs(pages[k], k, options)

\* C23: read takes the pages in order and the paragraphs of the model are,
\* page after page: the `Page N` header first iff include_headers; then one
\* ParagraphBlock per line of the normalized text; for a page without text
\* nothing, or exactly one empty ParagraphBlock when keep_empty_paragraphs is
\* set. Without keep_empty_paragraphs no paragraph of the model is empty. A
\* PDF without pages gives a model of zero blocks and no error.
C23_PdfPages ==
    r_reader = "PdfReader"
      => /\ rpc \in {"page", "returned"}
              => /\ SelectSeq(r_blocks, IsParagraph)
                      = ParagraphsUpTo(r_file.pages, PagesDone, r_options)
                 /\ ~r_options.keep_empty_paragraphs
                      => \A k \in 1..Len(r_blocks) :
                            IsParagraph(r_blocks[k]) => r_blocks[k].text # <<>>
                 /\ Cardinality({k \in 1..Len(r_blocks) : r_blocks[k].is_header})
                      = IF r_options.include_headers THEN PagesDone ELSE 0
         /\ (rpc # "open" /\ r_file.opens /\ r_file.pages = <<>>)
              => (rpc = "returned" /\ r_blocks = <<>>)

\* Two pages with headers and keep_empty_paragraphs: the first has no text
\* and gives its header and one empty paragraph, the second gives its header
\* and the three lines of "a\n\nb".
C23_Witness ==
    /\ r_reader = "PdfReader" /\ rpc = "returned"
    /\ Len(r_file.pages) = 2
    /\ r_options.include_headers /\ r_options.keep_empty_paragraphs
    /\ r_file.pages[1].text.kind = "None"
    /\ r_file.pages[2].text.s = <<"a", LF, LF, "b">>
    /\ Len(SelectSeq(r_blocks, IsParagraph)) = 6
    /\ r_blocks[2] = ParagraphBlock(<<>>)

-----------------------------------------------------------------------------
(* DocxReader.read (docx_reader.py:34-89), loop by loop *)

MaxSections == 2
MaxBody == 2

\* A table row as python-docx gives it: the texts of its cells and the grid
\* columns it leaves out before and after them.
DocxRow(cells, before, after) ==
    [cells |-> cells, before |-> before, after |-> after]

\* A table of two rows, the second with one cell less and one column skipped
\* after it.
DocxTable ==
    << DocxRow(<< <<"A", "1">>, <<SP, "B", TAB, SP, "1">> >>, 0, 0),
       DocxRow(<< <<"A", "2">> >>, 0, 1) >>

\* A header or a footer: its paragraphs and its tables.
HeaderFooter(paragraphs, tables) == [paragraphs |-> paragraphs, tables |-> tables]

\* The sections: one whose header and footer hold one empty paragraph, one
\* whose header and footer hold text and a table.
SectionValues ==
    {[header |-> HeaderFooter(<< <<>> >>, <<>>),
      footer |-> HeaderFooter(<< <<>> >>, <<>>)],
     [header |-> HeaderFooter(<< <<"H">>, <<>> >>, <<DocxTable>>),
      footer |-> HeaderFooter(<< <<SP, "F">> >>, <<DocxTable>>)]}

\* The top-level elements of the body iter_block_items yields
\* (docx_reader.py:21-27): paragraphs and tables.
BodyParagraph(txt) == [kind |-> "Paragraph", text |-> txt]
BodyTable(tbl) == [kind |-> "Table", table |-> tbl]

BodyValues ==
    {BodyParagraph(<<"a">>), BodyParagraph(<<SP>>),
     BodyParagraph(<<"b", TAB, SP, "c">>), BodyTable(DocxTable)}

\* The files: one Document() cannot open, and the documents of up to
\* MaxSections sections and MaxBody body elements.
DocxFiles ==
    {[opens |-> FALSE, sections |-> <<>>, body |-> <<>>]}
    \cup {[opens |-> TRUE, sections |-> sc, body |-> bd] :
            sc \in SeqsUpTo(SectionValues, MaxSections),
            bd \in SeqsUpTo(BodyValues, MaxBody)}

\* lines 35-37: the three options read reads.
DocxReadOptions ==
    [include_headers : BOOLEAN, include_footers : BOOLEAN,
     include_tables : {TRUE}, keep_empty_paragraphs : BOOLEAN]

\* docx_reader.py:77-89
_parse_table(table, is_header, is_footer) ==
    [rows |-> [r \in 1..Len(table) |->
                 [k \in 1..table[r].before |-> <<>>]
                   \o [c \in 1..Len(table[r].cells) |->
                         docx_clean_text(table[r].cells[c])]
                   \o [k \in 1..table[r].after |-> <<>>]],
     is_header |-> is_header, is_footer |-> is_footer]

\* lines 46-49, 58-61, 68-71: the blocks of a list of paragraphs.
RECURSIVE KeptParagraphs(_, _, _, _)
KeptParagraphs(paragraphs, keep, is_header, is_footer) ==
    IF paragraphs = <<>> THEN <<>>
    ELSE LET t == docx_clean_text(paragraphs[1])
         IN  (IF t # <<>> \/ keep
                THEN <<[text |-> t, is_header |-> is_header,
                        is_footer |-> is_footer]>>
                ELSE <<>>)
               \o KeptParagraphs(Tail(paragraphs), keep, is_header, is_footer)

\* f"Section {i}"
SectionMarker(i) == <<"S", "e", "c", "t", "i", "o", "n", " ">> \o Decimal(i)

\* lines 45-52 and 57-64: the blocks of one section's header or footer: the
\* marker, the paragraphs, the tables.
SectionBlocksMarkerLast(part, i, keep, is_header, is_footer) ==
    KeptParagraphs(part.paragraphs, keep, is_header, is_footer)
      \o [k \in 1..Len(part.tables) |->
            _parse_table(part.tables[k], is_header, is_footer)]
      \o <<[text |-> SectionMarker(i), is_header |-> is_header,
            is_footer |-> is_footer]>>
SectionBlocks(part, i, keep, is_header, is_footer) ==
    <<[text |-> SectionMarker(i), is_header |-> is_header,
       is_footer |-> is_footer]>>
      \o KeptParagraphs(part.paragraphs, keep, is_header, is_footer)
      \o [k \in 1..Len(part.tables) |->
            _parse_table(part.tables[k], is_header, is_footer)]

\* The loop read enters after the loop `from` (0: none yet, 1: headers,
\* 2: footers, 3: body): a loop that is switched off or has nothing to iterate
\* over is passed by.
LoopAfter(from, file, options) ==
    IF from < 1 /\ options.include_headers /\ file.sections # <<>>
      THEN "headers"
    ELSE IF from < 2 /\ options.include_footers /\ file.sections # <<>>
      THEN "footers"
    ELSE IF from < 3 /\ file.body # <<>> THEN "body"
    ELSE "return"

\* DocxReader().read(file_path, options) is called.
InitDocxRead ==
    /\ r_reader = "DocxReader"
    /\ r_file \in DocxFiles
    /\ r_options \in DocxReadOptions
    /\ r_blocks = <<>>
    /\ r_i = 0
    /\ rpc = "open"
    /\ IdleChunk
    /\ IdleClean
    /\ IdleGui
    /\ IdleEngine
    /\ IdleRegistry
    /\ IdleWriter
    /\ IdleBatch

\* lines 35-40: Document(file_path); its exception leaves read.
DocxOpen ==
    /\ r_reader = "DocxReader" /\ rpc = "open"
    /\ IF ~r_file.opens THEN rpc' = "raised" /\ UNCHANGED r_i
       ELSE rpc' = LoopAfter(0, r_file, r_options) /\ r_i' = 1
    /\ UNCHANGED <<r_reader, r_file, r_options, r_blocks>>
    /\ ReadFrame

\* lines 44-52: one iteration of the loop over the sections for the headers.
DocxHeaderSection ==
    /\ r_reader = "DocxReader" /\ rpc = "headers"
    /\ r_blocks' = r_blocks \o SectionBlocks(r_file.sections[r_i].header, r_i,
                                             r_options.keep_empty_paragraphs,
                                             TRUE, FALSE)
    /\ IF r_i < Len(r_file.sections)
         THEN r_i' = r_i + 1 /\ UNCHANGED rpc
         ELSE r_i' = 1 /\ rpc' = LoopAfter(1, r_file, r_options)
    /\ UNCHANGED <<r_reader, r_file, r_options>>
    /\ ReadFrame

\* lines 56-64: one iteration of the loop over the sections for the footers.
DocxFooterSection ==
    /\ r_reader = "DocxReader" /\ rpc = "footers"
    /\ r_blocks' = r_blocks \o SectionBlocks(r_file.sections[r_i].footer, r_i,
                                             r_options.keep_empty_paragraphs,
                                             FALSE, TRUE)
    /\ IF r_i < Len(r_file.sections)
         THEN r_i' = r_i + 1 /\ UNCHANGED rpc
         ELSE r_i' = 1 /\ rpc' = LoopAfter(2, r_file, r_options)
    /\ UNCHANGED <<r_reader, r_file, r_options>>
    /\ ReadFrame

\* lines 67-73: one iteration of the loop over the body.
DocxBodyBlock ==
    /\ r_reader = "DocxReader" /\ rpc = "body"
    /\ LET block == r_file.body[r_i]
       IN  r_blocks' =
             r_blocks \o (IF block.kind = "Paragraph"
                            THEN KeptParagraphs(<<block.text>>,
                                                r_options.keep_empty_paragraphs,
                                                FALSE, FALSE)
                            ELSE <<_parse_table(block.table, FALSE, FALSE)>>)
    /\ IF r_i < Len(r_file.body)
         THEN r_i' = r_i + 1 /\ UNCHANGED rpc
         ELSE r_i' = 1 /\ rpc' = LoopAfter(3, r_file, r_options)
    /\ UNCHANGED <<r_reader, r_file, r_options>>
    /\ ReadFrame

\* line 75: `return model`
DocxReturn ==
    /\ r_reader = "DocxReader" /\ rpc = "return"
    /\ rpc' = "returned"
    /\ UNCHANGED <<r_reader, r_file, r_options, r_blocks, r_i>>
    /\ ReadFrame

NextDocxRead ==
    DocxOpen \/ DocxHeaderSection \/ DocxFooterSection \/ DocxBodyBlock
        \/ DocxReturn

SpecDocxRead == InitDocxRead /\ [][NextDocxRead]_vars

-----------------------------------------------------------------------------
(* Properties of DocxReader.read *)

\* The normalized texts of a list of paragraphs, the empty ones left out
\* unless keep, as ParagraphBlocks with the two flags.
FlaggedParagraphs(paragraphs, keep, is_header, is_footer) ==
    LET texts == [k \in 1..Len(paragraphs) |-> docx_clean_text(paragraphs[k])]
        kept == IF keep THEN texts ELSE SelectSeq(texts, NonEmptyLine)
    IN  [k \in 1..Len(kept) |->
           [text |-> kept[k], is_header |-> is_header, is_footer |-> is_footer]]

\* For the sections 1..k in order: the `Section N` marker, then the header
\* (which = "header") or footer paragraphs of the section, then its tables,
\* all flagged.
RECURSIVE SectionParts(_, _, _, _)
SectionParts(sections, k, which, keep) ==
    IF k = 0 THEN <<>>
    ELSE LET part == IF which = "header" THEN sections[k].header
                     ELSE sections[k].footer
             h == which = "header"
             f == which = "footer"
         IN  SectionParts(sections, k - 1, which, keep)
               \o <<[text |-> <<"S", "e", "c", "t", "i", "o", "n", " ">>
                                \o Decimal(k),
                     is_header |-> h, is_footer |-> f]>>
               \o FlaggedParagraphs(part.paragraphs, keep, h, f)
               \o [j \in 1..Len(part.tables) |-> _parse_table(part.tables[j], h, f)]

\* One block per body paragraph that is kept and one TableBlock per body
\* table, in document order.
RECURSIVE BodyBlocks(_, _)
BodyBlocks(elements, keep) ==
    IF elements = <<>> THEN <<>>
    ELSE (IF elements[1].kind = "Paragraph"
            THEN FlaggedParagraphs(<<elements[1].text>>, keep, FALSE, FALSE)
            ELSE <<_parse_table(elements[1].table, FALSE, FALSE)>>)
           \o BodyBlocks(Tail(elements), keep)

\* The number of body paragraphs whose normalized text is not empty, and of
\* body tables.
NonEmptyBodyParagraphs(elements) ==
    Cardinality({k \in 1..Len(elements) :
                    /\ elements[k].kind = "Paragraph"
                    /\ docx_clean_text(elements[k].text) # <<>>})
BodyTables(elements) ==
    Cardinality({k \in 1..Len(elements) : elements[k].kind = "Table"})

\* C24: the model DocxReader.read returns lists, in this order: with
\* include_headers, section by section, the `Section N` marker flagged
\* is_header and the section's header paragraphs and tables; with
\* include_footers the same with is_footer; then one block per body paragraph
\* and body table in document order. A paragraph whose normalized text is
\* empty is left out unless keep_empty_paragraphs, in the headers and footers
\* as in the body. With both options off a document of N non-empty body
\* paragraphs and M tables gives N + M blocks, none flagged; no block has both
\* flags, at any time.
C24_DocxOrder ==
    r_reader = "DocxReader"
      => LET keep == r_options.keep_empty_paragraphs
             nsec == Len(r_file.sections)
         IN  /\ rpc = "returned"
                  => /\ r_blocks =
                          (IF r_options.include_headers
                             THEN SectionParts(r_file.sections, nsec, "header", keep)
                             ELSE <<>>)
                          \o (IF r_options.include_footers
                                THEN SectionParts(r_file.sections, nsec, "footer", keep)
                                ELSE <<>>)
                          \o BodyBlocks(r_file.body, keep)
                     /\ (~r_options.include_headers /\ ~r_options.include_footers
                           /\ ~keep)
                          => /\ Len(r_blocks) = NonEmptyBodyParagraphs(r_file.body)
                                                  + BodyTables(r_file.body)
                             /\ \A k \in 1..Len(r_blocks) :
                                   ~r_blocks[k].is_header /\ ~r_blocks[k].is_footer
             /\ \A k \in 1..Len(r_blocks) :
                   ~(r_blocks[k].is_header /\ r_blocks[k].is_footer)

\* Headers and footers of two sections, the second with text and a table,
\* then a body of a paragraph that is dropped and a table.
C24_Witness ==
    /\ r_reader = "DocxReader" /\ rpc = "returned"
    /\ r_options.include_headers /\ r_options.include_footers
    /\ ~r_options.keep_empty_paragraphs
    /\ Len(r_file.sections) = 2
    /\ r_file.sections[1].header.tables = <<>>
    /\ r_file.sections[2].header.tables # <<>>
    /\ r_file.body = <<BodyParagraph(<<SP>>), BodyTable(DocxTable)>>
    /\ Len(r_blocks) = 9
    /\ r_blocks[1].text = SectionMarker(1)
    /\ r_blocks[9].rows = << << <<"A", "1">>, <<"B", SP, "1">> >>,
                             << <<"A", "2">>, <<>> >> >>

-----------------------------------------------------------------------------
(* MainWindow: the file list, start_conversion, its worker thread and        *)
(* _finish_conversion (main_window.py:326-357 and 370-467)                   *)

MaxThreads == 2

\* The files the file dialog offers: a document and a file of unsupported type.
GuiInputs == {Path("in", <<"a">>, DotDocx), Path("in", <<"b">>, DotInvalid)}

\* The option widgets (main_window.py:61-76): the chunking check box, the
\* output mode, the text of the output folder entry and the text of the chunk
\* size entry, "x" being a text that is not a number.
GuiOption(chunk, mode, out_dir_, size) ==
    [enable_chunk |-> chunk, output_mode |-> mode, out_dir |-> out_dir_,
     chunk_size |-> size]

\* The settings the user moves between.
GuiOptions ==
    {GuiOption(FALSE, "same", "", "3"), GuiOption(TRUE, "same", "", "3"),
     GuiOption(FALSE, "folder", "out", "3"), GuiOption(FALSE, "folder", "", "3"),
     GuiOption(TRUE, "same", "", "x")}

\* lines 377 and 409-412: the values the worker closure captures. The output
\* folder counts in mode "folder" only (lines 420-423 and 438-441); the output
\* type box offers ".txt".
Snapshot(opts) ==
    [enable_chunk |-> opts.enable_chunk,
     out_dir |-> IF opts.output_mode = "folder" THEN opts.out_dir ELSE "",
     out_ext |-> DotTxt]

\* lines 371-372: `if self._is_converting: return`
AlreadyConvertingNever(flag) == FALSE
AlreadyConverting(flag) == flag

\* The window is shown: no file, the default options, the output folder of the
\* saved configuration (main_window.py:59-80).
InitGui ==
    /\ _is_converting = FALSE
    /\ convert_btn = "normal"
    /\ self_files = <<>>
    /\ gui_opts = GuiOption(FALSE, "same", "", "3")
    /\ threads = 0
    /\ IdleBatch
    /\ _readers = StartupReaders
    /\ _writers = StartupWriters
    /\ NoCalls
    /\ dirs = {"in"}
    /\ files = <<>>
    /\ dirs0 = [c \in Callers |-> dirs]
    /\ files0 = [c \in Callers |-> files]
    /\ IdleRegistry
    /\ IdleRead
    /\ IdleWriter
    /\ IdleChunk
    /\ IdleClean

\* What the GUI thread's handlers leave alone.
GuiFrame ==
    UNCHANGED <<chunk_vars, clean_vars, engine_vars, registry_vars, writer_vars,
                read_vars>>

\* start_conversion (lines 370-459). It returns at once while a conversion
\* runs, without files, and in mode "folder" without a folder. Otherwise it
\* sets _is_converting, disables the button, reads the options (IntVar.get of
\* a text that is not a number raises and ends the handler there, line 404),
\* takes the snapshot and starts the worker thread.
StartConversion ==
    /\ IF \/ AlreadyConverting(_is_converting)
          \/ self_files = <<>>
          \/ gui_opts.output_mode = "folder" /\ gui_opts.out_dir = ""
         THEN UNCHANGED <<gui_vars, batch_vars>>
         ELSE /\ _is_converting' = TRUE
              /\ convert_btn' = "disabled"
              /\ UNCHANGED <<self_files, gui_opts>>
              /\ IF gui_opts.chunk_size = "x"
                   THEN UNCHANGED <<batch_vars, threads>>
                   ELSE /\ threads < MaxThreads
                        /\ threads' = threads + 1
                        /\ frontend' = "gui"
                        /\ batch_files' = self_files
                        /\ batch_opts' = Snapshot(gui_opts)
                        /\ b_i' = 1
                        /\ bpc' = "prepare"
                        /\ invoked' = <<>>
                        /\ reports' = <<>>
    /\ GuiFrame

\* add_files (lines 326-341): a chosen path is appended unless it is in the
\* list.
AddFiles ==
    /\ \E p \in GuiInputs :
         self_files' = IF \E i \in 1..Len(self_files) : self_files[i] = p
                         THEN self_files ELSE Append(self_files, p)
    /\ UNCHANGED <<_is_converting, convert_btn, gui_opts, threads>>
    /\ UNCHANGED batch_vars
    /\ GuiFrame

\* remove_selected (lines 343-353): the selected paths leave the list.
RemoveSelected ==
    /\ \E sel \in (SUBSET {self_files[i] : i \in 1..Len(self_files)}) \ {{}} :
         self_files' = SelectSeq(self_files, LAMBDA p : p \notin sel)
    /\ UNCHANGED <<_is_converting, convert_btn, gui_opts, threads>>
    /\ UNCHANGED batch_vars
    /\ GuiFrame

\* clear_files (lines 355-357)
ClearFiles ==
    /\ self_files' = <<>>
    /\ UNCHANGED <<_is_converting, convert_btn, gui_opts, threads>>
    /\ UNCHANGED batch_vars
    /\ GuiFrame

\* The user changes an option widget.
SetOption ==
    /\ \E o \in GuiOptions :
         /\ o # gui_opts
         /\ gui_opts' = o
    /\ UNCHANGED <<_is_converting, convert_btn, self_files, threads>>
    /\ UNCHANGED batch_vars
    /\ GuiFrame

\* _finish_conversion (lines 461-464), run by the GUI thread once the worker
\* has handed it to root.after (line 457).
FinishConversion ==
    /\ bpc = "finished"
    /\ frontend = "gui"
    /\ _is_converting' = FALSE
    /\ convert_btn' = "normal"
    /\ bpc' = "idle"
    /\ UNCHANGED <<self_files, gui_opts, threads>>
    /\ UNCHANGED <<frontend, batch_files, batch_opts, b_i, invoked, reports>>
    /\ GuiFrame

\* CoreEngine.convert (engine.py:15-38) taken as one step of the worker: the
\* call raises UnsupportedExtensionError for an input without reader, and
\* otherwise returns or raises ConversionFailedError. What the call reads and
\* writes is left out here: SpecEngine and SpecBatch follow it step by step.
ConvertOutcome(t) ==
    /\ epc[t] = "get_reader"
    /\ \E ok \in BOOLEAN :
         IF get_reader(Lower(input_path[t].suffix)) = None
         THEN /\ raised' = [raised EXCEPT ![t] =
                               Error("UnsupportedExtensionError",
                                     "No reader found for extension",
                                     Lower(input_path[t].suffix), "none", "")]
              /\ epc' = [epc EXCEPT ![t] = "raised"]
         ELSE IF ok
         THEN /\ epc' = [epc EXCEPT ![t] = "returned"]
              /\ UNCHANGED raised
         ELSE /\ raised' = [raised EXCEPT ![t] = ConversionFailedError(WriteError)]
              /\ epc' = [epc EXCEPT ![t] = "raised"]
    /\ UNCHANGED <<_readers, _writers, input_path, output_path, write_options,
                   ReaderCls, WriterCls, doc_model, dirs, files, dirs0, files0,
                   io_log, plugin_error, calls>>
    /\ UNCHANGED <<chunk_vars, clean_vars, registry_vars, writer_vars, batch_vars,
                   read_vars, gui_vars>>

\* The steps of the worker thread (lines 414-457).
WorkerStep ==
    BatchPrepare \/ BatchConvert \/ ConvertOutcome(MainCaller) \/ BatchReport
        \/ BatchEnd

NextGui ==
    StartConversion \/ AddFiles \/ RemoveSelected \/ ClearFiles \/ SetOption
        \/ FinishConversion
        \/ BatchPrepare \/ BatchConvert \/ ConvertOutcome(MainCaller)
        \/ BatchReport \/ BatchEnd

SpecGui == InitGui /\ [][NextGui]_vars

\* The worker thread keeps running while it can, and the Tk main loop runs
\* the callbacks handed to root.after.
SpecGuiFair == SpecGui /\ WF_vars(WorkerStep) /\ WF_vars(FinishConversion)

\* C28: every conversion start_conversion starts eventually finishes:
\* whatever step of the worker fails, _finish_conversion runs, _is_converting
\* is False again and the Convert button is enabled again.
C28_ConversionFinishes ==
    (bpc = "prepare") ~> (~_is_converting /\ convert_btn = "normal")

\* A worker thread exists: started and _finish_conversion has not run for it.
WorkerPending == bpc \in {"prepare", "loop", "converting", "finished", "aborted"}

C29_State ==
    /\ WorkerPending => _is_converting /\ threads >= 1
    /\ invoked = SubSeq(batch_files, 1, Len(invoked))
    /\ bpc = "converting"
         => /\ input_path[MainCaller] = batch_files[b_i]
            /\ output_path[MainCaller]
                 = Target(batch_files[b_i], batch_files, batch_opts)
            /\ write_options[MainCaller] = BatchWriteOptions(batch_opts)
    /\ bpc = "finished" => invoked = batch_files

C29_Step ==
    /\ threads' # threads
         => /\ ~_is_converting /\ ~WorkerPending
            /\ threads' = threads + 1
            /\ _is_converting' /\ bpc' = "prepare"
            /\ batch_files' = self_files
            /\ batch_opts' = Snapshot(gui_opts)
    /\ _is_converting
         => /\ threads' = threads
            /\ batch_files' = batch_files
            /\ batch_opts' = batch_opts
    /\ (_is_converting /\ ~_is_converting') => (bpc = "finished" /\ bpc' = "idle")

\* C29: at most one worker at a time. A worker is started only by a step taken
\* while _is_converting is False and no worker is pending, with the file list
\* and the option values of that moment; while _is_converting is True no step
\* starts a worker or changes what the worker captured (start_conversion is
\* a no-op, add_files, remove_selected, clear_files and option changes touch
\* the live values only); _is_converting is True from the start of the worker
\* until _finish_conversion runs; the worker calls convert on the captured
\* files in order, each with the target and options built from the captured
\* values.
C29_OneWorkerSnapshot == [](C29_State) /\ [][C29_Step]_vars

\* The second conversion has converted its two captured files and handed over
\* _finish_conversion, while the user has emptied the list and switched to
\* another setting since it started.
C29_Witness ==
    /\ bpc = "finished"
    /\ threads = 2
    /\ _is_converting
    /\ Len(batch_files) = 2
    /\ invoked = batch_files
    /\ self_files = <<>>
    /\ Snapshot(gui_opts) # batch_opts
    /\ gui_opts.enable_chunk /\ ~batch_opts.enable_chunk

=============================================================================
